---- MODULE Spec2Model ----
(***************************************************************************)
(* PolyRisk: the game driver (game/game.py), the state transitions         *)
(* (strategy/state_actions.py), the strategy contract wrapper              *)
(* (strategy/strategy.py) and the state queries                            *)
(* (model/state_informations.py), over a small board.                      *)
(*                                                                         *)
(* Python values are represented as follows.                               *)
(*   Optional[X]      a sequence: << >> is None, <<x>> / <<x,y,z>> a value *)
(*   Dict[K, V]       a function whose DOMAIN is the set of keys           *)
(*   State            [world |-> reference, state |-> reference of a dict] *)
(*   the dict objects live in 'heap', so that aliasing between the States  *)
(*   kept in the history and the current State is observable               *)
(***************************************************************************)
EXTENDS Integers, Sequences, FiniteSets, TLC

\* ------------------------------------------------------------------ bounds
\* largest finite round limit r_max handed to game()
MaxRounds == 2
\* number of slots explored when r_max is None (unlimited game)
MaxSlots == 2
\* largest number of battles the attack functions launch in one game
MaxBattles == 2
\* the same in the games that are followed over MaxRounds rounds
MaxLongBattles == 1
\* largest allocation to one territory a reinforcement function answers
MaxAlloc == 3
\* largest number of attacking units an attack function answers
MaxAttackUnits == 4
\* largest number of defending units a defense function answers
MaxDefendUnits == 3
\* direct calls: the units a territory with several neighbours can hold
MaxUnits == 5
\* direct calls: the units a territory with a single neighbour can hold
MaxBorderUnits == 2
\* direct calls: the largest loss handed to a transition
MaxLosses == 2
\* World(G, M, Gamma): the longest list of strategies
MaxStrategies == 3
\* random_initial_state(w): the most territories of a World
MaxTerritories == 5
\* fight_random_outcome(n, m): the largest numbers of dice asked for
MaxAttackDice == 4
MaxDefendDice == 3
MaxConquest == 12

\* tournaments: the most games of a batch and the most worker processes
MaxGames == 3
MaxWorkers == 2

\* ------------------------------------------------------------ Python None
None == << >>

\* number of faces of a die, randint(1, 6)
DieFaces == 6
\* units put on each territory by random_initial_state
InitUnits == 2

\* =================================================================== World
\* the board handed to World(G, M, Gamma): regions of territories
M == [ r1 |-> {"t1", "t2"}, r2 |-> {"t3"} ]
\* the (partial) bordering relation handed to World
Gamma == [ t1 |-> {"t2"}, t2 |-> {"t3"}, t3 |-> {"t2"} ]
\* the palette of the armies
ARMY_COLOURS == { "blue", "green", "magenta", "red", "white", "yellow" }
\* the armies, in the order of A = list(s.world.armies); one strategy each
ArmyList == << "blue", "green", "red" >>

armies == { ArmyList[i] : i \in 1..Len(ArmyList) }
regions == DOMAIN M
territories == UNION { M[r] : r \in DOMAIN M }
\* Territory.region
region(t) == CHOOSE r \in DOMAIN M : t \in M[r]
\* Region.value, set by World.__init__ to n // 2 + n % 2
region_value(r) == (Cardinality(M[r]) \div 2) + (Cardinality(M[r]) % 2)
\* World.__init__: the symmetric closure of Gamma without the reflexive pairs
adjacencies ==
    { q \in (DOMAIN Gamma) \X territories : q[2] \in Gamma[q[1]] /\ q[1] # q[2] }
    \cup
    { q \in territories \X (DOMAIN Gamma) : q[1] \in Gamma[q[2]] /\ q[1] # q[2] }
region_territories == [ r \in regions |-> { t \in territories : region(t) = r } ]
\* the single World object of a game
WorldRef == "w"

\* =============================================================== variables
VARIABLES
    heap,    \* the dict objects: heap[i] is a Dict[Territory, (Army, Unit)]
    s,       \* game(): the current State
    r_max,   \* game(): the round limit, None or <<k>>
    j,       \* game(): the slot counter
    S,       \* game(): the history, a list of (Play, State)
    a,       \* game(): the army of the current slot
    R,       \* game(): the reinforcement of the current turn
    K,       \* game(): the battles of the current turn
    I,       \* game(): the invasions of the current turn
    k,       \* game(): the attack under way, (t_a, t_d, n_a)
    n_d,     \* game(): the defending dice of the attack under way
    p,       \* game(): the losses (p_a, p_d) of the round under way
    pc,      \* game(): the position in the code
    err,     \* the assertion that aborted the game, "" when none did
    calls,   \* the strategy calls of the current turn, in order
    slots,   \* the armies that were given a slot, in order, with what they did
    willing, \* the battles the attack functions are still willing to launch
    test,    \* a direct call of one function: its arguments and its outcome
    batch    \* a tournament: its games, its statistics and where the runner is

vars == << heap, s, r_max, j, S, a, R, K, I, k, n_d, p, pc, err, calls, slots, willing, test, batch >>

\* ================================================================= helpers
RECURSIVE SumOver(_, _)
\* sum(f[x] for x in D)
SumOver(f, D) ==
    IF D = {} THEN 0
    ELSE LET x == CHOOSE y \in D : TRUE IN f[x] + SumOver(f, D \ {x})

Min(x, y) == IF x <= y THEN x ELSE y
Max(x, y) == IF x >= y THEN x ELSE y

\* the dict of a State
Dict(st) == heap[st.state]

\* ============================================================= query layer
\* all the queries take the dict d of the State they are asked about
territory_occupant(d, t) == d[t][1]
territory_units(d, t) == d[t][2]
territories_occupied_by_army(d, b) == { t \in territories : territory_occupant(d, t) = b }
bordering_territories(t) == { t2 \in territories : <<t, t2>> \in adjacencies }
armies_in_territories(d, T) == { territory_occupant(d, t) : t \in T }
regions_occupied_by_army(d, b) ==
    { r \in regions : region_territories[r] \subseteq territories_occupied_by_army(d, b) }
army_units(d, b) ==
    SumOver([ t \in territories |-> territory_units(d, t) ],
            { t \in DOMAIN d : territory_occupant(d, t) = b })
is_defeated_army(d, b) == army_units(d, b) = 0
armies_in_region(d, r) == { territory_occupant(d, t) : t \in { u \in DOMAIN d : region(u) = r } }
\* next(iter(A)) is only reached on an empty set, where it raises StopIteration
region_occupant_check(d, r) ==
    IF r \notin regions THEN "region_occupant: the region must belong to the world"
    ELSE IF Cardinality(armies_in_region(d, r)) > 0 THEN ""
    ELSE "region_occupant: StopIteration"
region_occupant(d, r) ==
    IF Cardinality(armies_in_region(d, r)) > 0 THEN None
    ELSE << CHOOSE b \in armies_in_region(d, r) : TRUE >>
is_occupied_region(d, r) == region_occupant(d, r) # None
\* mutant: no minimum
reinforcement_units_no_minimum(d, b) ==
    (Cardinality(territories_occupied_by_army(d, b)) \div 3)
    + SumOver([ r \in regions |-> region_value(r) ], regions_occupied_by_army(d, b))
reinforcement_units(d, b) ==
    Max(3, (Cardinality(territories_occupied_by_army(d, b)) \div 3)
           + SumOver([ r \in regions |-> region_value(r) ], regions_occupied_by_army(d, b)))
\* the assertions of reinforcement_units
reinforcement_units_check(d, b) ==
    IF b \notin armies THEN "reinforcement_units: the army must belong to the world"
    ELSE IF is_defeated_army(d, b) THEN "reinforcement_units: a defeated army cannot claim fresh units"
    ELSE IF ~(reinforcement_units(d, b) >= 3) THEN "reinforcement_units: the minimal reinforcement units is three"
    ELSE ""
undefeated_armies(d) == { territory_occupant(d, t) : t \in DOMAIN d }
\* mutant: a winner is declared as soon as an army is out
winning_army_two_left(d) ==
    IF Cardinality(undefeated_armies(d)) > 2 THEN None
    ELSE << CHOOSE b \in undefeated_armies(d) : TRUE >>

winning_army(d) ==
    IF Cardinality(undefeated_armies(d)) > 1 THEN None
    ELSE << CHOOSE b \in undefeated_armies(d) : TRUE >>
game_over(d) == winning_army(d) # None


valid_dict(d) ==
    /\ DOMAIN d = territories
    /\ \A t \in territories : d[t][1] \in armies /\ d[t][2] \in Int /\ d[t][2] >= 1

\* ==================================================== fight_random_outcome
RECURSIVE insert_desc(_, _)
insert_desc(x, sq) ==
    IF sq = << >> THEN << x >>
    ELSE IF x >= Head(sq) THEN << x >> \o sq
    ELSE << Head(sq) >> \o insert_desc(x, Tail(sq))

RECURSIVE sorted_reverse(_)
\* sorted(l, reverse=True)
sorted_reverse(l) ==
    IF l = << >> THEN << >> ELSE insert_desc(Head(l), sorted_reverse(Tail(l)))

\* the lists that dice(n) can return
dice(n) == { sorted_reverse(r) : r \in [1..n -> 1..DieFaces] }

\* mutant: a tie is lost by the defender
dice_fight_outcome_tie_to_attacker(v_a, v_d) == IF v_a >= v_d THEN <<0, 1>> ELSE <<1, 0>>

dice_fight_outcome(v_a, v_d) == IF v_a > v_d THEN <<0, 1>> ELSE <<1, 0>>

sum_outcomes(u, v) == << u[1] + v[1], u[2] + v[2] >>

RECURSIVE reduce_sum_outcomes(_)
\* reduce(sum_outcomes, l) for a non-empty list l
reduce_sum_outcomes(l) ==
    IF Len(l) = 1 THEN l[1]
    ELSE sum_outcomes(reduce_sum_outcomes(SubSeq(l, 1, Len(l) - 1)), l[Len(l)])

\* the result of one round for the two sorted rolls: zip stops at the shorter
fight_result(d_a, d_d) ==
    reduce_sum_outcomes([ i \in 1..Min(Len(d_a), Len(d_d)) |-> dice_fight_outcome(d_a[i], d_d[i]) ])

\* the final assertion of fight_random_outcome
fight_result_allowed(n, m, result) ==
    result \in ( IF n = 1 \/ m = 1 THEN { <<0, 1>>, <<1, 0>> }
                 ELSE { <<2, 0>>, <<1, 1>>, <<0, 2>> } )

\* the losses fight_random_outcome(n, m) can return, over all the rolls
fight_random_outcome ==
    [ n \in 1..3 |-> [ m \in 1..2 |->
        { fight_result(d_a, d_d) : d_a \in dice(n), d_d \in dice(m) } ] ]

\* ------------------------------------------- the assertions of the queries
\* a Territory, an Army and a Region built outside of the World of the State
OtherTerritory == "t0"
OtherArmy == "black"
OtherRegion == "r0"
any_territories == territories \cup { OtherTerritory }
any_armies == armies \cup { OtherArmy }
any_regions == regions \cup { OtherRegion }

\* Each X_check is the chain of assertions of the query X on its arguments:
\* the message of the first that fails, "" when they all pass.
territory_occupant_check(d, t) ==
    IF t \notin territories THEN "territory_occupant: the territory belongs to the territories of the world"
    ELSE IF t \notin DOMAIN d THEN "territory_occupant: the territory belongs to the territories of the state"
    ELSE IF territory_occupant(d, t) \notin armies
        THEN "territory_occupant: the occupying army belongs to the armies of the world"
    ELSE ""
territory_units_check(d, t) ==
    IF t \notin territories THEN "territory_units: the territory belongs to the territories of the world"
    ELSE IF t \notin DOMAIN d THEN "territory_units: the territory belongs to the territories of the state"
    ELSE IF ~(territory_units(d, t) >= 1) THEN "territory_units: there is always at least one unit on any territory"
    ELSE ""
territories_occupied_by_army_check(d, b) ==
    IF b \notin armies THEN "territories_occupied_by_army: the army must belong to the world" ELSE ""
\* bordering_territories only asserts the types of its arguments
bordering_territories_check(d, t) == ""
armies_in_region_check(d, r) ==
    IF r \notin regions THEN "armies_in_region: the region must belong to the world" ELSE ""
armies_in_territories_check(d, T) ==
    IF ~(T \subseteq territories) THEN "armies_in_territories: t in s.world.territories"
    ELSE IF ~(T \subseteq DOMAIN d) THEN "armies_in_territories: t in s.state"
    ELSE ""
regions_occupied_by_army_check(d, b) ==
    IF b \notin armies THEN "regions_occupied_by_army: a in s.world.armies" ELSE ""
army_units_check(d, b) ==
    IF b \notin armies THEN "army_units: a in s.world.armies" ELSE ""
is_defeated_army_check(d, b) ==
    IF b \notin armies THEN "is_defeated_army: a in s.world.armies" ELSE ""

\* ======================================================= state transitions
\* Each do_X_check is the chain of assertions of do_X: the message of the
\* first one that fails, "" when they all pass.  Each do_X is the new dict.
do_reinforce_check(d, r) ==
    IF Cardinality(DOMAIN r) = 0 THEN "do_reinforce: there is actually a reinforcement"
    ELSE IF ~(DOMAIN r \subseteq territories) THEN "do_reinforce: territories to reinforce must exist"
    ELSE IF Cardinality(armies_in_territories(d, DOMAIN r)) # 1
        THEN "do_reinforce: reinforcement applies to a single army"
    ELSE IF \E t \in DOMAIN r : r[t] <= 0
        THEN "do_reinforce: strictly positive reinforcement units per territory"
    ELSE IF SumOver(r, DOMAIN r)
            # SumOver([ b \in armies |-> reinforcement_units(d, b) ], armies_in_territories(d, DOMAIN r))
        THEN "do_reinforce: all the reinforcement units have to be deployed"
    ELSE ""

\* mutant: every reinforced territory receives one unit
do_reinforce_one_each(d, r) ==
    [ t \in DOMAIN d |->
        IF t \in DOMAIN r THEN << territory_occupant(d, t), territory_units(d, t) + 1 >>
        ELSE d[t] ]

do_reinforce(d, r) ==
    [ t \in DOMAIN d |->
        IF t \in DOMAIN r THEN << territory_occupant(d, t), territory_units(d, t) + r[t] >>
        ELSE d[t] ]

do_bury_check(d, t_a, t_d, p_a, p_d) ==
    IF t_a \notin DOMAIN d THEN "do_bury: attacking territory must exist"
    ELSE IF t_d \notin DOMAIN d THEN "do_bury: defending territory must exist"
    ELSE IF << t_a, t_d >> \notin adjacencies
        THEN "do_bury: attacking and defending territories must be adjacent"
    ELSE IF territory_occupant(d, t_a) = territory_occupant(d, t_d)
        THEN "do_bury: attacking and defending armies must be distinct"
    ELSE IF << p_a, p_d >> \notin { <<0, 1>>, <<1, 0>>, <<2, 0>>, <<1, 1>>, <<0, 2>> }
        THEN "do_bury: losses"
    ELSE IF ~(p_a < territory_units(d, t_a)) THEN "do_bury: the attacking territory can never be defeated"
    ELSE IF ~(p_d < territory_units(d, t_d)) THEN "do_bury: the defending territory must not be defeated"
    ELSE ""

\* mutant: nothing is buried
do_bury_nothing(d, t_a, t_d, p_a, p_d) == d

\* mutant: the defending territory loses the losses of both sides
do_bury_both(d, t_a, t_d, p_a, p_d) ==
    [ t \in DOMAIN d |->
        IF t = t_d THEN << territory_occupant(d, t_d), territory_units(d, t_d) - p_d - p_a >>
        ELSE IF t = t_a THEN << territory_occupant(d, t_a), territory_units(d, t_a) - p_a >>
        ELSE d[t] ]

do_bury(d, t_a, t_d, p_a, p_d) ==
    [ t \in DOMAIN d |->
        IF t = t_d THEN << territory_occupant(d, t_d), territory_units(d, t_d) - p_d >>
        ELSE IF t = t_a THEN << territory_occupant(d, t_a), territory_units(d, t_a) - p_a >>
        ELSE d[t] ]

do_invade_check(d, t_a, t_d, n_a, p_a, n) ==
    IF t_a \notin DOMAIN d THEN "do_invade: attacking territory must exist"
    ELSE IF t_d \notin DOMAIN d THEN "do_invade: defending territory must exist"
    ELSE IF << t_a, t_d >> \notin adjacencies
        THEN "do_invade: attacking and defending territories must be adjacent"
    ELSE IF territory_occupant(d, t_a) = territory_occupant(d, t_d)
        THEN "do_invade: attacking and defending armies must be distinct"
    ELSE IF ~(p_a < n_a) THEN "do_invade: not all the units of the attacker have been killed"
    ELSE IF ~(n_a - p_a <= n) THEN "do_invade: at least the units from the last battle must invade"
    ELSE IF ~(0 < n_a - p_a /\ n_a - p_a <= n /\ n <= territory_units(d, t_a) - p_a - 1)
        THEN "do_invade: range of the invading units"
    ELSE ""

\* mutant: the two territories are exchanged
do_invade_exchange(d, t_a, t_d, n_a, p_a, n) ==
    [ d EXCEPT ![t_a] = << territory_occupant(d, t_d), territory_units(d, t_a) - p_a - n >>,
               ![t_d] = << territory_occupant(d, t_a), n >> ]

\* mutant: the conquered territory goes to an army that holds nothing, if any
do_invade_revives(d, t_a, t_d, n_a, p_a, n) ==
    [ d EXCEPT ![t_a] = << territory_occupant(d, t_a), territory_units(d, t_a) - p_a - n >>,
               ![t_d] = << IF armies \ undefeated_armies(d) = { } THEN territory_occupant(d, t_a)
                           ELSE CHOOSE b \in armies \ undefeated_armies(d) : TRUE, n >> ]

\* mutant: the losses of the attacker are not removed
do_invade_forgets_losses(d, t_a, t_d, n_a, p_a, n) ==
    [ t \in DOMAIN d |->
        IF t = t_d THEN << territory_occupant(d, t_a), n >>
        ELSE IF t = t_a THEN << territory_occupant(d, t_a), territory_units(d, t_a) - n >>
        ELSE d[t] ]

do_invade(d, t_a, t_d, n_a, p_a, n) ==
    [ t \in DOMAIN d |->
        IF t = t_d THEN << territory_occupant(d, t_a), n >>
        ELSE IF t = t_a THEN << territory_occupant(d, t_a), territory_units(d, t_a) - p_a - n >>
        ELSE d[t] ]

do_maneuver_check(d, t_0, t_1, n) ==
    IF t_0 \notin DOMAIN d \/ t_1 \notin DOMAIN d THEN "do_maneuver: territories must exist"
    ELSE IF << t_0, t_1 >> \notin adjacencies
        THEN "do_maneuver: movements are limited from a territory to an adjacent one"
    ELSE IF territory_occupant(d, t_0) # territory_occupant(d, t_1)
        THEN "do_maneuver: territories must be occupied by the same army"
    ELSE IF ~(n > 0) THEN "do_maneuver: at least one unit must be moved"
    ELSE IF ~(n < territory_units(d, t_0)) THEN "do_maneuver: at least one unit must stay on the initial territory"
    ELSE ""

\* mutant: the units that arrive do not leave the starting territory
do_maneuver_copies(d, t_0, t_1, n) ==
    [ t \in DOMAIN d |->
        IF t = t_1 THEN << territory_occupant(d, t_1), territory_units(d, t_1) + n >>
        ELSE d[t] ]

do_maneuver(d, t_0, t_1, n) ==
    [ t \in DOMAIN d |->
        IF t = t_1 THEN << territory_occupant(d, t_1), territory_units(d, t_1) + n >>
        ELSE IF t = t_0 THEN << territory_occupant(d, t_0), territory_units(d, t_0) - n >>
        ELSE d[t] ]


\* ======================================================= strategy contract
\* Army.strategy: the Strategy object bound to each army by World.__init__
strategy(b) == b

\* What the five wrapped functions of a Strategy may answer: anything.
reinforce_results == UNION { [X -> 0..MaxAlloc] : X \in SUBSET territories }
attack_results(left) ==
    IF left = 0 THEN { None }
    ELSE { None } \cup (territories \X territories \X (0..MaxAttackUnits))
defend_results == 0..MaxDefendUnits
invade_results(d, t_a) == 0..territory_units(d, t_a)
maneuver_results(d) ==
    { None } \cup UNION { { << t_0, t_1, n >> : n \in 0..territory_units(d, t_0) } :
                          t_0 \in territories, t_1 \in territories }

\* Each Strategy_X_check is the chain of assertions of Strategy.X around the
\* wrapped function: the message of the first that fails, "" when all pass.
Strategy_reinforce_pre(d, b) ==
    IF b \notin armies THEN "reinforce: the army must belong to the current state"
    ELSE IF is_defeated_army(d, b) THEN "reinforce: a defeated army cannot be reinforced"
    ELSE IF ~(reinforcement_units(d, b) > 0) THEN "reinforce: reinforcements units have to be strictly positive"
    ELSE ""

Strategy_reinforce_check(d, b, result) ==
    IF Strategy_reinforce_pre(d, b) # "" THEN Strategy_reinforce_pre(d, b)
    ELSE IF ~(DOMAIN result \subseteq territories_occupied_by_army(d, b))
        THEN "reinforce: all the reinforced territories belong to the army"
    ELSE IF SumOver(result, DOMAIN result) # reinforcement_units(d, b)
        THEN "reinforce: all the units have been deployed"
    ELSE ""

\* mutant: the occupant of the defending territory is not looked at
Strategy_attack_check_any_target(d, b, result) ==
    IF b \notin armies THEN "attack: unknown attacking army in the current world"
    ELSE IF result = None THEN ""
    ELSE IF result[1] \notin territories THEN "attack: unknown attacking territory in the current world"
    ELSE IF result[2] \notin territories THEN "attack: unknown defending territory in the current world"
    ELSE IF territory_occupant(d, result[1]) # b
        THEN "attack: attack must be launched from a territory belonging to the attacker"
    ELSE IF ~(result[3] > 0) THEN "attack: needs at least one unit to attack"
    ELSE IF ~(result[3] < territory_units(d, result[1]))
        THEN "attack: at least one unit must stay on the attacking territory"
    ELSE IF ~(result[3] <= 3) THEN "attack: no more than three units can be used per battle"
    ELSE ""

Strategy_attack_check(d, b, result) ==
    IF b \notin armies THEN "attack: unknown attacking army in the current world"
    ELSE IF result = None THEN ""
    ELSE IF result[1] \notin territories THEN "attack: unknown attacking territory in the current world"
    ELSE IF result[2] \notin territories THEN "attack: unknown defending territory in the current world"
    ELSE IF territory_occupant(d, result[1]) # b
        THEN "attack: attack must be launched from a territory belonging to the attacker"
    ELSE IF b = territory_occupant(d, result[2]) THEN "attack: fighting units must belong to distinct armies"
    ELSE IF ~(result[3] > 0) THEN "attack: needs at least one unit to attack"
    ELSE IF ~(result[3] < territory_units(d, result[1]))
        THEN "attack: at least one unit must stay on the attacking territory"
    ELSE IF ~(result[3] <= 3) THEN "attack: no more than three units can be used per battle"
    ELSE ""

Strategy_defend_pre(d, t_a, t_d, n) ==
    IF t_a \notin territories \/ t_a \notin DOMAIN d \/ t_d \notin DOMAIN d
        THEN "defend: unknown territory in the current world"
    ELSE IF territory_occupant(d, t_a) = territory_occupant(d, t_d)
        THEN "defend: fighting units must belong to distinct armies"
    ELSE IF t_d \notin territories THEN "defend: unknown defending territory in the current world"
    ELSE IF ~(n > 0) THEN "defend: needs at least one unit to attack"
    ELSE IF ~(n < territory_units(d, t_a)) THEN "defend: at least one unit must stay on the attacking territory"
    ELSE IF ~(n <= 3) THEN "defend: no more than three units can be used per battle"
    ELSE ""

\* mutant: the defender may roll two dice for a single unit
Strategy_defend_post_two_dice(d, t_a, t_d, n, result) ==
    IF ~(result > 0) THEN "defend: at least one unit must defend the territory under attack"
    ELSE IF ~(result <= 2) THEN "defend: anyway, no more than two units can be used to defend"
    ELSE ""

Strategy_defend_post(d, t_a, t_d, n, result) ==
    IF ~(result > 0) THEN "defend: at least one unit must defend the territory under attack"
    ELSE IF ~(result <= territory_units(d, t_d))
        THEN "defend: no more than the available troops on the defending territory can be used"
    ELSE IF ~(result <= 2) THEN "defend: anyway, no more than two units can be used to defend"
    ELSE ""

\* line 152 compares an Army with a unit count, which are never equal
Strategy_invade_pre(d, t_a, t_d, n_a, p_a) ==
    IF t_a \notin territories \/ t_d \notin territories \/ t_a \notin DOMAIN d \/ t_d \notin DOMAIN d
        THEN "invade: unknown territory in the current world"
    ELSE IF ~(n_a > 0) THEN "invade: at least one unit has attacked"
    ELSE IF p_a \notin { 0, 1 } THEN "invade: no more than one unit could have been killed on the attacker side"
    ELSE ""

\* mutant: only the upper bound of the invading units is checked
Strategy_invade_post_upper(d, t_a, t_d, n_a, p_a, result) ==
    IF ~(result <= territory_units(d, t_a) - 1) THEN "invade: at least one unit must stay in the winner territory"
    ELSE ""

Strategy_invade_post(d, t_a, t_d, n_a, p_a, result) ==
    IF ~(result >= n_a - p_a)
        THEN "invade: at least the remaining units must take possession of the vanquished territory"
    ELSE IF ~(result <= territory_units(d, t_a) - 1) THEN "invade: at least one unit must stay in the winner territory"
    ELSE ""

Strategy_maneuver_check(d, b, result) ==
    IF b \notin armies THEN "maneuver: the army must belong to the current state"
    ELSE IF result = None THEN ""
    ELSE IF result[1] \notin DOMAIN d \/ result[2] \notin DOMAIN d THEN "maneuver: territories must exist"
    ELSE IF territory_occupant(d, result[1]) # b THEN "maneuver: the left territory must belong to the army"
    ELSE IF territory_occupant(d, result[2]) # b THEN "maneuver: the arrival territory must belong to the army"
    ELSE IF << result[1], result[2] >> \notin adjacencies THEN "maneuver: territories must be adjacent"
    ELSE IF ~(result[3] > 0) THEN "maneuver: at least one unit must move"
    ELSE IF ~(result[3] < territory_units(d, result[1])) THEN "maneuver: at least one unit must be left behind"
    ELSE ""


\* ===================================================================== heap
\* a dict object is referenced by the caller of game() (the initial State) or
\* by a State of the history
referenced(ref) == ref = 1 \/ \E i \in 1..Len(S) : S[i][2].state = ref

\* s.state | { ... } builds a new dict object.  Once s is rebound, the dict of
\* the previous State is reclaimed unless the history or the caller holds it.
\* mutant: the dict of the input State is updated in place
new_ref_in_place(st) == st.state

new_ref(st) == IF referenced(st.state) THEN Len(heap) + 1 ELSE st.state

store(ref, d) == IF ref > Len(heap) THEN Append(heap, d) ELSE [ heap EXCEPT ![ref] = d ]

\* s._replace(state = ...): the same world, the new dict
replace(st, ref) == [ st EXCEPT !.state = ref ]

\* ==================================================================== game
A == ArmyList

\* mutant: the first army is never served
current_army_shifted == A[((j + 1) % Len(A)) + 1]

\* a = A[j % len(A)]
current_army == A[(j % Len(A)) + 1]

\* mutant: the loop does not stop when the game is over
while_condition_no_winner == IF r_max = None THEN TRUE ELSE (j \div Len(A)) < r_max[1]

\* mutant: one round too many
while_condition_one_more ==
    /\ IF r_max = None THEN TRUE ELSE (j \div Len(A)) <= r_max[1]
    /\ ~game_over(Dict(s))

\* the condition of the while loop of game()
while_condition ==
    /\ IF r_max = None THEN TRUE ELSE (j \div Len(A)) < r_max[1]
    /\ ~game_over(Dict(s))

\* an unlimited game is explored for MaxSlots slots
explored == IF r_max = None THEN j < MaxSlots ELSE TRUE

\* mutant: the attack loop is not left when the attack function answers None
after_attack_goes_on(result) == IF result = None THEN "attack" ELSE "defend"

\* mutant: any loss of the defender counts as a conquest
conquered_any_loss(d, t_d, p_d) == p_d >= 1

\* line 84: the attack loop goes on until the attack function answers None
after_attack(result) == IF result = None THEN "maneuver" ELSE "defend"

\* line 89: the round has destroyed the defending units
conquered(d, t_d, p_d) == p_d = territory_units(d, t_d)

call(fn, b, none) == [ fn |-> fn, of |-> b, none |-> none ]

\* the lists a shuffle of the set X can give
shuffled(X) == { f \in [ 1..Cardinality(X) -> X ] : \A x \in X : \E i \in DOMAIN f : f[i] = x }

RECURSIVE repeated(_, _)
\* l * n
repeated(l, n) == IF n = 0 THEN << >> ELSE l \o repeated(l, n - 1)

\* the World of the games: what World(G, M, Gamma) builds for three strategies
world ==
    [ armies |-> armies, regions |-> regions, territories |-> territories,
      adjacencies |-> adjacencies, region_territories |-> region_territories ]

\* the assertions of random_initial_state on its argument
random_initial_state_check(w) ==
    IF ~(Cardinality(w.armies) >= 1)
        THEN "random_initial_state: there must be at least one army in the world (as a limit case)"
    ELSE IF ~(Cardinality(w.armies) <= Cardinality(ARMY_COLOURS))
        THEN "random_initial_state: there cannot more armies than available colours"
    ELSE IF ~(Cardinality(w.territories) >= Cardinality(w.armies))
        THEN "random_initial_state: there must be at least one territory per army"
    ELSE ""

\* mutant: the territories left after the fair placements go to any armies
random_initial_state_any_rest(w) ==
    { [ t \in w.territories |->
          LET i == CHOOSE x \in DOMAIN T : T[x] = t
              P == repeated(B, Cardinality(w.territories) \div Cardinality(w.armies))
          IN  << (P \o Q)[i], InitUnits >> ] :
        T \in shuffled(w.territories), B \in shuffled(w.armies),
        Q \in [ 1..Cardinality(w.armies) -> w.armies ] }

\* the dicts random_initial_state(w) can return: dict(zip(T, P + Q))
random_initial_state(w) ==
    { [ t \in w.territories |->
          LET i == CHOOSE x \in DOMAIN T : T[x] = t
              P == repeated(B, Cardinality(w.territories) \div Cardinality(w.armies))
          IN  << (P \o Q)[i], InitUnits >> ] :
        T \in shuffled(w.territories), B \in shuffled(w.armies), Q \in shuffled(w.armies) }

\* the boards held by one army
one_army_dicts == { [ t \in territories |-> << b, InitUnits >> ] : b \in armies }

\* two boards on which the last army holds nothing
two_army_dicts ==
    { [ t1 |-> << A[1], InitUnits >>, t2 |-> << b, InitUnits >>, t3 |-> << A[2], InitUnits >> ] :
        b \in { A[1], A[2] } }

\* no function has been called directly
NoCall == [ fn |-> "" ]

\* the locals of game() before the loop
\* no tournament is running
NoBatch == [ runner |-> "" ]

Start ==
    /\ s = [ world |-> WorldRef, state |-> 1 ]
    /\ j = 0
    /\ S = << >>
    /\ a = ""
    /\ R = << >>
    /\ K = << >>
    /\ I = << >>
    /\ k = None
    /\ n_d = 0
    /\ p = << 0, 0 >>
    /\ pc = "loop"
    /\ err = ""
    /\ calls = << >>
    /\ slots = << >>
    /\ test = NoCall

\* short games: unlimited, or of at most one round
Init ==
    /\ heap \in { << d >> : d \in random_initial_state(world) \cup one_army_dicts \cup two_army_dicts }
    /\ r_max \in { None, << 0 >>, << 1 >> }
    /\ willing = MaxBattles
    /\ Start
    /\ batch = NoBatch

\* games of up to MaxRounds rounds
InitRounds ==
    /\ heap \in { << d >> : d \in random_initial_state(world) \cup one_army_dicts }
    /\ r_max \in { << n >> : n \in 0..MaxRounds }
    /\ willing \in 0..MaxLongBattles
    /\ Start
    /\ batch = NoBatch

\* an assertion fails: the exception leaves game(), whose locals are lost; the
\* caller is left with the initial State
Raise(message) ==
    /\ pc' = "failed"
    /\ err' = message
    /\ heap' = << heap[1] >>
    /\ s' = [ world |-> WorldRef, state |-> 1 ]
    /\ j' = 0
    /\ S' = << >>
    /\ a' = ""
    /\ R' = << >>
    /\ K' = << >>
    /\ I' = << >>
    /\ k' = None
    /\ n_d' = 0
    /\ p' = << 0, 0 >>
    /\ calls' = << >>
    /\ slots' = << >>
    /\ willing' = 0
    /\ UNCHANGED << r_max, test, batch >>

\* line 77, the loop is left, and line 101
Return ==
    /\ pc = "loop"
    /\ ~while_condition
    /\ pc' = "done"
    /\ UNCHANGED << heap, s, r_max, j, S, a, R, K, I, k, n_d, p, err, calls, slots, willing, test, batch >>

\* lines 78, 79 and 99: the army of the slot is defeated
Skip ==
    /\ pc = "loop"
    /\ while_condition
    /\ explored
    /\ is_defeated_army(Dict(s), current_army)
    /\ a' = current_army
    /\ j' = j + 1
    /\ slots' = Append(slots, << current_army, FALSE >>)
    /\ UNCHANGED << heap, s, r_max, S, R, K, I, k, n_d, p, pc, err, calls, willing, test, batch >>

\* lines 78 to 83
Reinforce ==
    /\ pc = "loop"
    /\ while_condition
    /\ explored
    /\ ~is_defeated_army(Dict(s), current_army)
    /\ \E result \in reinforce_results :
        LET c1 == Strategy_reinforce_check(Dict(s), current_army, result)
            c2 == do_reinforce_check(Dict(s), result)
            ref == new_ref(s)
        IN  IF c1 # "" THEN Raise(c1)
            ELSE IF c2 # "" THEN Raise(c2)
            ELSE /\ a' = current_army
                 /\ calls' = << call("reinforce", strategy(current_army), FALSE) >>
                 /\ heap' = store(ref, do_reinforce(Dict(s), result))
                 /\ s' = replace(s, ref)
                 /\ R' = result
                 /\ K' = << >>
                 /\ I' = << >>
                 /\ pc' = "attack"
                 /\ UNCHANGED << r_max, j, S, k, n_d, p, err, slots, willing, test, batch >>

\* lines 84 and 85
Attack ==
    /\ pc = "attack"
    /\ \E result \in attack_results(willing) :
        LET c == Strategy_attack_check(Dict(s), a, result)
        IN  IF c # "" THEN Raise(c)
            ELSE /\ calls' = Append(calls, call("attack", strategy(a), result = None))
                 /\ k' = result
                 /\ pc' = after_attack(result)
                 /\ willing' = IF result = None THEN willing ELSE willing - 1
                 /\ UNCHANGED << heap, s, r_max, j, S, a, R, K, I, n_d, p, err, slots, test, batch >>

\* line 86: the defense is asked to the strategy of the army of the turn
Defend ==
    /\ pc = "defend"
    /\ \E result \in defend_results :
        LET c1 == Strategy_defend_pre(Dict(s), k[1], k[2], k[3])
            c2 == Strategy_defend_post(Dict(s), k[1], k[2], k[3], result)
        IN  IF c1 # "" THEN Raise(c1)
            ELSE IF c2 # "" THEN Raise(c2)
            ELSE /\ calls' = Append(calls, call("defend", strategy(a), FALSE))
                 /\ n_d' = result
                 /\ pc' = "fight"
                 /\ UNCHANGED << heap, s, r_max, j, S, a, R, K, I, k, p, err, slots, willing, test, batch >>

\* lines 87 to 89, and lines 93 and 94 when the territory is not conquered
Fight ==
    /\ pc = "fight"
    /\ \E result \in fight_random_outcome[k[3]][n_d] :
        LET c1 == IF fight_result_allowed(k[3], n_d, result) THEN ""
                  ELSE "fight_random_outcome: the possible outcome"
            c2 == do_bury_check(Dict(s), k[1], k[2], result[1], result[2])
            ref == new_ref(s)
        IN  IF c1 # "" THEN Raise(c1)
            ELSE IF conquered(Dict(s), k[2], result[2])
            THEN /\ p' = result
                 /\ K' = Append(K, << k[1], k[2], k[3], n_d, result[1], result[2] >>)
                 /\ pc' = "invade"
                 /\ UNCHANGED << heap, s, r_max, j, S, a, R, I, k, n_d, err, calls, slots, willing, test, batch >>
            ELSE IF c2 # "" THEN Raise(c2)
            ELSE /\ p' = result
                 /\ K' = Append(K, << k[1], k[2], k[3], n_d, result[1], result[2] >>)
                 /\ heap' = store(ref, do_bury(Dict(s), k[1], k[2], result[1], result[2]))
                 /\ s' = replace(s, ref)
                 /\ pc' = "attack"
                 /\ UNCHANGED << r_max, j, S, a, R, I, k, n_d, err, calls, slots, willing, test, batch >>

\* lines 90 to 92
Invade ==
    /\ pc = "invade"
    /\ \E result \in invade_results(Dict(s), k[1]) :
        LET c1 == Strategy_invade_pre(Dict(s), k[1], k[2], k[3], p[1])
            c2 == Strategy_invade_post(Dict(s), k[1], k[2], k[3], p[1], result)
            c3 == do_invade_check(Dict(s), k[1], k[2], k[3], p[1], result)
            ref == new_ref(s)
        IN  IF c1 # "" THEN Raise(c1)
            ELSE IF c2 # "" THEN Raise(c2)
            ELSE IF c3 # "" THEN Raise(c3)
            ELSE /\ calls' = Append(calls, call("invade", strategy(a), FALSE))
                 /\ heap' = store(ref, do_invade(Dict(s), k[1], k[2], k[3], p[1], result))
                 /\ s' = replace(s, ref)
                 /\ I' = Append(I, << k[1], k[2], result >>)
                 /\ pc' = "attack"
                 /\ UNCHANGED << r_max, j, S, a, R, K, k, n_d, p, err, slots, willing, test, batch >>

\* lines 95 to 99; the locals of the turn are dead afterwards
Maneuver ==
    /\ pc = "maneuver"
    /\ \E m \in maneuver_results(Dict(s)) :
        LET c1 == Strategy_maneuver_check(Dict(s), a, m)
            c2 == IF m = None THEN "" ELSE do_maneuver_check(Dict(s), m[1], m[2], m[3])
            ref == IF m = None THEN s.state ELSE new_ref(s)
            st == replace(s, ref)
        IN  IF c1 # "" THEN Raise(c1)
            ELSE IF c2 # "" THEN Raise(c2)
            ELSE /\ heap' = IF m = None THEN heap
                            ELSE store(ref, do_maneuver(Dict(s), m[1], m[2], m[3]))
                 /\ s' = st
                 /\ S' = Append(S, << << R, K, I, m >>, st >>)
                 /\ j' = j + 1
                 /\ slots' = Append(slots, << a, TRUE >>)
                 /\ calls' = Append(calls, call("maneuver", strategy(a), m = None))
                 /\ R' = << >>
                 /\ K' = << >>
                 /\ I' = << >>
                 /\ k' = None
                 /\ n_d' = 0
                 /\ p' = << 0, 0 >>
                 /\ pc' = "loop"
                 /\ UNCHANGED << r_max, a, err, willing, test, batch >>

Next ==
    \/ Return
    \/ Skip
    \/ Reinforce
    \/ Attack
    \/ Defend
    \/ Fight
    \/ Invade
    \/ Maneuver

Spec == Init /\ [][Next]_vars

SpecRounds == InitRounds /\ [][Next]_vars


SpecRoundsFair == InitRounds /\ [][Next]_vars /\ WF_vars(Next)

\* ============================================================ direct calls
\* The functions of the engine are also called one at a time, outside of
\* game(), on any valid State and with any arguments.  test records such a
\* call: the function, its arguments, whether the wrapped function of the
\* strategy was consulted and what it answered, what the call returned (None
\* when it raised), and the message of the assertion that failed ("" if none).
outcome(fn, args, called, answer, result, message) ==
    [ fn |-> fn, args |-> args, called |-> called, answer |-> answer,
      result |-> result, err |-> message ]

locals == << heap, s, r_max, j, S, a, R, K, I, k, n_d, p, pc, err, calls, slots, willing, batch >>

\* the valid States the functions are called on
test_dicts ==
    { d \in [ territories -> armies \X (1..MaxUnits) ] :
        \A t \in territories :
            Cardinality(bordering_territories(t)) = 1 => territory_units(d, t) <= MaxBorderUnits }

InitCalls ==
    /\ heap \in { << d >> : d \in test_dicts }
    /\ r_max = None
    /\ willing = 0
    /\ Start
    /\ batch = NoBatch

Call_do_reinforce ==
    /\ test = NoCall
    /\ \E r \in reinforce_results :
        LET c == do_reinforce_check(Dict(s), r)
        IN  test' = outcome("do_reinforce", << r >>, FALSE, None,
                            IF c = "" THEN do_reinforce(Dict(s), r) ELSE None, c)
    /\ UNCHANGED locals

Call_do_bury ==
    /\ test = NoCall
    /\ \E t_a \in territories, t_d \in territories, p_a \in 0..MaxLosses, p_d \in 0..MaxLosses :
        LET c == do_bury_check(Dict(s), t_a, t_d, p_a, p_d)
        IN  test' = outcome("do_bury", << t_a, t_d, p_a, p_d >>, FALSE, None,
                            IF c = "" THEN do_bury(Dict(s), t_a, t_d, p_a, p_d) ELSE None, c)
    /\ UNCHANGED locals

Call_do_invade ==
    /\ test = NoCall
    /\ \E t_a \in territories, t_d \in territories, n_a \in 0..MaxAttackUnits,
          p_a \in 0..MaxLosses, n \in 0..MaxUnits :
        LET c == do_invade_check(Dict(s), t_a, t_d, n_a, p_a, n)
        IN  test' = outcome("do_invade", << t_a, t_d, n_a, p_a, n >>, FALSE, None,
                            IF c = "" THEN do_invade(Dict(s), t_a, t_d, n_a, p_a, n) ELSE None, c)
    /\ UNCHANGED locals

Call_do_maneuver ==
    /\ test = NoCall
    /\ \E t_0 \in territories, t_1 \in territories, n \in 0..MaxUnits :
        LET c == do_maneuver_check(Dict(s), t_0, t_1, n)
        IN  test' = outcome("do_maneuver", << t_0, t_1, n >>, FALSE, None,
                            IF c = "" THEN do_maneuver(Dict(s), t_0, t_1, n) ELSE None, c)
    /\ UNCHANGED locals

NextTransitions ==
    \/ Call_do_reinforce
    \/ Call_do_bury
    \/ Call_do_invade
    \/ Call_do_maneuver

SpecTransitions == InitCalls /\ [][NextTransitions]_vars


\* Strategy.reinforce(s, b), for any answer of the wrapped function
Call_Strategy_reinforce ==
    /\ test = NoCall
    /\ \E b \in armies :
        IF Strategy_reinforce_pre(Dict(s), b) # ""
        THEN test' = outcome("Strategy.reinforce", << b >>, FALSE, None, None,
                             Strategy_reinforce_pre(Dict(s), b))
        ELSE \E answer \in reinforce_results :
                LET c == Strategy_reinforce_check(Dict(s), b, answer)
                IN  test' = outcome("Strategy.reinforce", << b >>, TRUE, answer,
                                    IF c = "" THEN answer ELSE None, c)
    /\ UNCHANGED locals

\* Strategy.attack(s, b)
Call_Strategy_attack ==
    /\ test = NoCall
    /\ \E b \in armies, answer \in attack_results(1) :
        LET c == Strategy_attack_check(Dict(s), b, answer)
        IN  test' = outcome("Strategy.attack", << b >>, TRUE, answer,
                            IF c = "" THEN answer ELSE None, c)
    /\ UNCHANGED locals

\* Strategy.defend(s, t_a, t_d, n)
Call_Strategy_defend ==
    /\ test = NoCall
    /\ \E t_a \in territories, t_d \in territories, n \in 0..MaxAttackUnits :
        IF Strategy_defend_pre(Dict(s), t_a, t_d, n) # ""
        THEN test' = outcome("Strategy.defend", << t_a, t_d, n >>, FALSE, None, None,
                             Strategy_defend_pre(Dict(s), t_a, t_d, n))
        ELSE \E answer \in defend_results :
                LET c == Strategy_defend_post(Dict(s), t_a, t_d, n, answer)
                IN  test' = outcome("Strategy.defend", << t_a, t_d, n >>, TRUE, answer,
                                    IF c = "" THEN << answer >> ELSE None, c)
    /\ UNCHANGED locals

\* Strategy.invade(s, t_a, t_d, n_a, p_a)
Call_Strategy_invade ==
    /\ test = NoCall
    /\ \E t_a \in territories, t_d \in territories, n_a \in 0..MaxAttackUnits, p_a \in 0..MaxLosses :
        IF Strategy_invade_pre(Dict(s), t_a, t_d, n_a, p_a) # ""
        THEN test' = outcome("Strategy.invade", << t_a, t_d, n_a, p_a >>, FALSE, None, None,
                             Strategy_invade_pre(Dict(s), t_a, t_d, n_a, p_a))
        ELSE \E answer \in invade_results(Dict(s), t_a) :
                LET c == Strategy_invade_post(Dict(s), t_a, t_d, n_a, p_a, answer)
                IN  test' = outcome("Strategy.invade", << t_a, t_d, n_a, p_a >>, TRUE, answer,
                                    IF c = "" THEN << answer >> ELSE None, c)
    /\ UNCHANGED locals

\* Strategy.maneuver(s, b)
Call_Strategy_maneuver ==
    /\ test = NoCall
    /\ \E b \in armies, answer \in maneuver_results(Dict(s)) :
        LET c == Strategy_maneuver_check(Dict(s), b, answer)
        IN  test' = outcome("Strategy.maneuver", << b >>, TRUE, answer,
                            IF c = "" THEN answer ELSE None, c)
    /\ UNCHANGED locals

NextStrategy ==
    \/ Call_Strategy_reinforce
    \/ Call_Strategy_attack
    \/ Call_Strategy_defend
    \/ Call_Strategy_invade
    \/ Call_Strategy_maneuver

SpecStrategy == InitCalls /\ [][NextStrategy]_vars


\* reinforcement_units(s, b)
Call_reinforcement_units ==
    /\ test = NoCall
    /\ \E b \in any_armies :
        LET c == reinforcement_units_check(Dict(s), b)
        IN  test' = outcome("reinforcement_units", << b >>, FALSE, None,
                            IF c = "" THEN << reinforcement_units(Dict(s), b) >> ELSE None, c)
    /\ UNCHANGED locals

\* regions_occupied_by_army(s, b)
Call_regions_occupied_by_army ==
    /\ test = NoCall
    /\ \E b \in any_armies :
        LET c == regions_occupied_by_army_check(Dict(s), b)
        IN  test' = outcome("regions_occupied_by_army", << b >>, FALSE, None,
                            IF c = "" THEN << regions_occupied_by_army(Dict(s), b) >> ELSE None, c)
    /\ UNCHANGED locals

\* region_occupant(s, r): an Optional[Army]
Call_region_occupant ==
    /\ test = NoCall
    /\ \E r \in any_regions :
        LET c == region_occupant_check(Dict(s), r)
        IN  test' = outcome("region_occupant", << r >>, FALSE, None,
                            IF c = "" THEN region_occupant(Dict(s), r) ELSE None, c)
    /\ UNCHANGED locals

\* is_occupied_region(s, r)
Call_is_occupied_region ==
    /\ test = NoCall
    /\ \E r \in any_regions :
        LET c == region_occupant_check(Dict(s), r)
        IN  test' = outcome("is_occupied_region", << r >>, FALSE, None,
                            IF c = "" THEN << is_occupied_region(Dict(s), r) >> ELSE None, c)
    /\ UNCHANGED locals

\* territory_occupant(s, t)
Call_territory_occupant ==
    /\ test = NoCall
    /\ \E t \in any_territories :
        LET c == territory_occupant_check(Dict(s), t)
        IN  test' = outcome("territory_occupant", << t >>, FALSE, None,
                            IF c = "" THEN << territory_occupant(Dict(s), t) >> ELSE None, c)
    /\ UNCHANGED locals

\* territory_units(s, t)
Call_territory_units ==
    /\ test = NoCall
    /\ \E t \in any_territories :
        LET c == territory_units_check(Dict(s), t)
        IN  test' = outcome("territory_units", << t >>, FALSE, None,
                            IF c = "" THEN << territory_units(Dict(s), t) >> ELSE None, c)
    /\ UNCHANGED locals

\* territories_occupied_by_army(s, b)
Call_territories_occupied_by_army ==
    /\ test = NoCall
    /\ \E b \in any_armies :
        LET c == territories_occupied_by_army_check(Dict(s), b)
        IN  test' = outcome("territories_occupied_by_army", << b >>, FALSE, None,
                            IF c = "" THEN << territories_occupied_by_army(Dict(s), b) >> ELSE None, c)
    /\ UNCHANGED locals

\* bordering_territories(s, t)
Call_bordering_territories ==
    /\ test = NoCall
    /\ \E t \in any_territories :
        LET c == bordering_territories_check(Dict(s), t)
        IN  test' = outcome("bordering_territories", << t >>, FALSE, None,
                            IF c = "" THEN << bordering_territories(t) >> ELSE None, c)
    /\ UNCHANGED locals

\* armies_in_region(s, r)
Call_armies_in_region ==
    /\ test = NoCall
    /\ \E r \in any_regions :
        LET c == armies_in_region_check(Dict(s), r)
        IN  test' = outcome("armies_in_region", << r >>, FALSE, None,
                            IF c = "" THEN << armies_in_region(Dict(s), r) >> ELSE None, c)
    /\ UNCHANGED locals

\* armies_in_territories(s, T)
Call_armies_in_territories ==
    /\ test = NoCall
    /\ \E T \in SUBSET any_territories :
        LET c == armies_in_territories_check(Dict(s), T)
        IN  test' = outcome("armies_in_territories", << T >>, FALSE, None,
                            IF c = "" THEN << armies_in_territories(Dict(s), T) >> ELSE None, c)
    /\ UNCHANGED locals

\* army_units(s, b)
Call_army_units ==
    /\ test = NoCall
    /\ \E b \in any_armies :
        LET c == army_units_check(Dict(s), b)
        IN  test' = outcome("army_units", << b >>, FALSE, None,
                            IF c = "" THEN << army_units(Dict(s), b) >> ELSE None, c)
    /\ UNCHANGED locals

\* is_defeated_army(s, b)
Call_is_defeated_army ==
    /\ test = NoCall
    /\ \E b \in any_armies :
        LET c == is_defeated_army_check(Dict(s), b)
        IN  test' = outcome("is_defeated_army", << b >>, FALSE, None,
                            IF c = "" THEN << is_defeated_army(Dict(s), b) >> ELSE None, c)
    /\ UNCHANGED locals

\* territory_fronts(s): a2 is read on t1, as a1 is
territory_fronts(d) ==
    { << x[1], territory_occupant(d, x[1]), x[2], territory_occupant(d, x[1]) >> :
        x \in { y \in adjacencies : territory_occupant(d, y[1]) # territory_occupant(d, y[1]) } }

Call_territory_fronts ==
    /\ test = NoCall
    /\ test' = outcome("territory_fronts", << >>, FALSE, None, << territory_fronts(Dict(s)) >>, "")
    /\ UNCHANGED locals

NextQueries ==
    \/ Call_reinforcement_units
    \/ Call_regions_occupied_by_army
    \/ Call_region_occupant
    \/ Call_is_occupied_region
    \/ Call_territory_occupant
    \/ Call_territory_units
    \/ Call_territories_occupied_by_army
    \/ Call_bordering_territories
    \/ Call_armies_in_region
    \/ Call_armies_in_territories
    \/ Call_army_units
    \/ Call_is_defeated_army
    \/ Call_territory_fronts

SpecQueries == InitCalls /\ [][NextQueries]_vars


\* ====================================================== World construction
\* World(G, M, Gamma) is called on any list of strategies, on a few maps and
\* on any, maybe partial, bordering relation between three territory names.
test_strategies == UNION { [ 1..n -> { "g" } ] : n \in 0..MaxStrategies }
test_maps ==
    { M,
      [ r1 |-> { "t1", "t2", "t3" } ],
      [ r1 |-> { "t1", "t2" } ],
      [ r1 |-> { "t1", "t2" }, r2 |-> { "t2", "t3" } ],
      [ r1 |-> { "t1", "t2", "t3" }, r2 |-> { } ] }
test_Gammas == UNION { [ X -> SUBSET territories ] : X \in SUBSET territories }

\* the names of the territories of the map Mp
World_territories(Mp) == UNION { Mp[r] : r \in DOMAIN Mp }
\* Region(r, n // 2 + n % 2)
World_region_value(Mp, r) == (Cardinality(Mp[r]) \div 2) + (Cardinality(Mp[r]) % 2)
\* zip(ARMY_COLOURS, G) pairs the strategies with the first colours of a set,
\* whose iteration order is any: the armies are any len(G) of the colours
World_armies(G) ==
    { X \in SUBSET ARMY_COLOURS : Cardinality(X) = Min(Len(G), Cardinality(ARMY_COLOURS)) }
\* the names that Gamma lists as neighbours
Gamma_neighbours(Gm) == UNION { Gm[t] : t \in DOMAIN Gm }
\* mutant: the reflexive pairs are kept
World_adjacencies_reflexive(Gm) ==
    { q \in (DOMAIN Gm) \X Gamma_neighbours(Gm) : q[2] \in Gm[q[1]] }
    \cup
    { q \in Gamma_neighbours(Gm) \X (DOMAIN Gm) : q[1] \in Gm[q[2]] }

\* D: the pairs of Gamma and their converses, without the reflexive pairs
World_adjacencies(Gm) ==
    { q \in (DOMAIN Gm) \X Gamma_neighbours(Gm) : q[2] \in Gm[q[1]] /\ q[1] # q[2] }
    \cup
    { q \in Gamma_neighbours(Gm) \X (DOMAIN Gm) : q[1] \in Gm[q[2]] /\ q[1] # q[2] }
\* T[t].region == R[r]: a name listed in several regions belongs to one of them
World_region_territories(Mp) ==
    { f \in [ DOMAIN Mp -> SUBSET World_territories(Mp) ] :
        /\ \A r \in DOMAIN Mp : f[r] \subseteq Mp[r]
        /\ \A t \in World_territories(Mp) : Cardinality({ r \in DOMAIN Mp : t \in f[r] }) = 1 }

\* the preconditions of World.__init__ and the failures of its constructions
World_pre(G, Mp, Gm) ==
    IF ~(Len(G) >= 1) THEN "World: there must be at least one strategy/army, as a limit case"
    ELSE IF ~(Cardinality(World_territories(Mp)) >= Len(G))
        THEN "World: there are at least as many territories as armies"
    ELSE IF \E t \in DOMAIN Gm : Gm[t] = { }
        THEN "World: the graph has to be connected, minimally no Gamma is empty"
    ELSE IF ~(World_territories(Mp) \subseteq DOMAIN Gm)
        THEN "World: the graph has to be connected, minimally any territory of a region appears in Gamma"
    ELSE IF \E r \in DOMAIN Mp : ~(World_region_value(Mp, r) > 0)
        THEN "Region: each contient must provide a strictly positive value"
    ELSE IF ~((DOMAIN Gm) \cup Gamma_neighbours(Gm) \subseteq World_territories(Mp))
        THEN "World: KeyError"
    ELSE ""

\* the postconditions of World.__init__ on the World w it has built
World_post(G, Mp, Gm, w) ==
    IF Cardinality(w.armies) # Len(G) THEN "World: The number of armies is the number of strategies"
    ELSE IF w.regions # DOMAIN Mp THEN "World: The regions is the domain of the map"
    ELSE IF Cardinality(w.territories) # SumOver([ r \in DOMAIN Mp |-> Cardinality(Mp[r]) ], DOMAIN Mp)
        THEN "World: len(self.territories) == sum(len(M[r]) for r in M)"
    ELSE IF w.territories # World_territories(Mp) THEN "World: the names of the territories"
    ELSE IF w.adjacencies #
            ( { q \in (DOMAIN Gm) \X Gamma_neighbours(Gm) : q[2] \in Gm[q[1]] }
              \cup { q \in Gamma_neighbours(Gm) \X (DOMAIN Gm) : q[1] \in Gm[q[2]] } )
        THEN "World: the names of the adjacencies"
    ELSE IF w.region_territories # Mp THEN "World: the territories of the regions"
    ELSE ""

\* the Worlds that the construction can build
World_init(G, Mp, Gm) ==
    { [ armies |-> X,
        regions |-> DOMAIN Mp,
        territories |-> World_territories(Mp),
        adjacencies |-> World_adjacencies(Gm),
        region_territories |-> f ] :
      X \in World_armies(G), f \in World_region_territories(Mp) }

Call_World ==
    /\ test = NoCall
    /\ \E G \in test_strategies, Mp \in test_maps, Gm \in test_Gammas :
        IF World_pre(G, Mp, Gm) # ""
        THEN test' = outcome("World", << G, Mp, Gm >>, FALSE, None, None, World_pre(G, Mp, Gm))
        ELSE \E w \in World_init(G, Mp, Gm) :
                LET c == World_post(G, Mp, Gm, w)
                IN  test' = outcome("World", << G, Mp, Gm >>, FALSE, None,
                                    IF c = "" THEN << w >> ELSE None, c)
    /\ UNCHANGED locals


\* the names of the territories of the boards of m territories
TerritoryNames == << "t1", "t2", "t3", "t4", "t5", "t6" >>
\* a board of one region and m territories that all border each other
board_M(m) == [ r \in { "r1" } |-> { TerritoryNames[i] : i \in 1..m } ]
board_Gamma(m) ==
    [ t \in { TerritoryNames[i] : i \in 1..m } |-> { TerritoryNames[i] : i \in 1..m } \ { t } ]
\* the Worlds that World builds for the strategies G on the board of m territories
board_worlds(G, m) ==
    IF World_pre(G, board_M(m), board_Gamma(m)) # "" THEN { }
    ELSE { w \in World_init(G, board_M(m), board_Gamma(m)) :
             World_post(G, board_M(m), board_Gamma(m), w) = "" }

\* random_initial_state(w)
Call_random_initial_state ==
    /\ test = NoCall
    /\ \E G \in test_strategies, m \in 1..MaxTerritories :
        \E w \in board_worlds(G, m) :
            IF random_initial_state_check(w) # ""
            THEN test' = outcome("random_initial_state", << w >>, FALSE, None, None,
                                 random_initial_state_check(w))
            ELSE \E d \in random_initial_state(w) :
                    test' = outcome("random_initial_state", << w >>, FALSE, None, << d >>, "")
    /\ UNCHANGED locals

\* no State exists yet
InitSetup ==
    /\ heap = << >>
    /\ r_max = None
    /\ willing = 0
    /\ Start
    /\ batch = NoBatch

NextSetup ==
    \/ Call_World
    \/ Call_random_initial_state

SpecSetup == InitSetup /\ [][NextSetup]_vars


\* ==================================================================== dice
\* the assertions of fight_random_outcome on its arguments
fight_random_outcome_check(n, m) ==
    IF ~(1 <= n /\ n <= 3) THEN "fight_random_outcome: number of attacking units between 1 and 3"
    ELSE IF ~(1 <= m /\ m <= 2) THEN "fight_random_outcome: number of defending units between 1 and 2"
    ELSE ""

\* fight_random_outcome(n, m), for the values r_a and r_d that randint gives
\* to the dice of the attacker and of the defender
Call_fight_random_outcome ==
    /\ test = NoCall
    /\ \E n \in 0..MaxAttackDice, m \in 0..MaxDefendDice :
        IF fight_random_outcome_check(n, m) # ""
        THEN test' = outcome("fight_random_outcome", << n, m >>, FALSE, None, None,
                             fight_random_outcome_check(n, m))
        ELSE \E r_a \in [ 1..n -> 1..DieFaces ], r_d \in [ 1..m -> 1..DieFaces ] :
                LET result == fight_result(sorted_reverse(r_a), sorted_reverse(r_d))
                    c == IF fight_result_allowed(n, m, result) THEN ""
                         ELSE "fight_random_outcome: the possible outcome"
                IN  test' = outcome("fight_random_outcome", << n, m >>, TRUE, << r_a, r_d >>,
                                    IF c = "" THEN result ELSE None, c)
    /\ UNCHANGED locals


\* --------------------------------------------------- single-round outcomes
\* A probability written with at most four decimals is the number of its
\* ten-thousandths: 0.583 is 5830, 0.2926 is 2926, 1.0 is Scale.
Scale == 10000

min(x, y) == IF x < y THEN x ELSE y

max(x, y) == IF x < y THEN y ELSE x

\* a table of single-round outcomes under which the attacker loses every pair
prob_table_attacker_loses(a_, d_) ==
    IF a_ \in 1..3 /\ d_ \in 1..2
    THEN [ o \in { << min(a_, d_) - i, i >> : i \in 0..min(a_, d_) } |->
             IF o[2] = 0 THEN Scale ELSE 0 ]
    ELSE << >>

\* ais/probabilistic.py: _prob_table(a, d), an empty dict for other dice
prob_table(a_, d_) ==
    IF << a_, d_ >> = << 1, 1 >> THEN (<< 1, 0 >> :> 5830) @@ (<< 0, 1 >> :> 4170)
    ELSE IF << a_, d_ >> = << 2, 1 >> THEN (<< 1, 0 >> :> 4210) @@ (<< 0, 1 >> :> 5790)
    ELSE IF << a_, d_ >> = << 3, 1 >> THEN (<< 1, 0 >> :> 3400) @@ (<< 0, 1 >> :> 6600)
    ELSE IF << a_, d_ >> = << 2, 2 >>
        THEN (<< 2, 0 >> :> 4480) @@ (<< 1, 1 >> :> 3240) @@ (<< 0, 2 >> :> 2280)
    ELSE IF << a_, d_ >> = << 3, 2 >>
        THEN (<< 2, 0 >> :> 2920) @@ (<< 1, 1 >> :> 3360) @@ (<< 0, 2 >> :> 3720)
    ELSE IF << a_, d_ >> = << 1, 2 >> THEN (<< 1, 0 >> :> 7450) @@ (<< 0, 1 >> :> 2550)
    ELSE << >>

\* strategy/attacks.py: _ROLL_ODDS
ROLL_ODDS ==
    (<< 1, 1 >> :> ((<< 1, 0 >> :> 5830) @@ (<< 0, 1 >> :> 4170)))
    @@ (<< 2, 1 >> :> ((<< 1, 0 >> :> 4210) @@ (<< 0, 1 >> :> 5790)))
    @@ (<< 3, 1 >> :> ((<< 1, 0 >> :> 3400) @@ (<< 0, 1 >> :> 6600)))
    @@ (<< 2, 2 >> :> ((<< 2, 0 >> :> 4480) @@ (<< 1, 1 >> :> 3240) @@ (<< 0, 2 >> :> 2280)))
    @@ (<< 3, 2 >> :> ((<< 2, 0 >> :> 2920) @@ (<< 1, 1 >> :> 3360) @@ (<< 0, 2 >> :> 3720)))
    @@ (<< 1, 2 >> :> ((<< 1, 0 >> :> 7450) @@ (<< 0, 1 >> :> 2550)))

\* strategy/attacks.py: BALANCED_BATTLE_OUTCOMES, tuples of (loss_a, loss_d, weight)
BALANCED_BATTLE_OUTCOMES ==
    (<< 1, 1 >> :> << << 1, 0, 5830 >>, << 0, 1, 4170 >> >>)
    @@ (<< 1, 2 >> :> << << 1, 0, 7450 >>, << 0, 1, 2550 >> >>)
    @@ (<< 2, 1 >> :> << << 1, 0, 4210 >>, << 0, 1, 5790 >> >>)
    @@ (<< 2, 2 >> :> << << 2, 0, 4480 >>, << 1, 1, 3240 >>, << 0, 2, 2280 >> >>)
    @@ (<< 3, 1 >> :> << << 1, 0, 2550 >>, << 0, 1, 7450 >> >>)
    @@ (<< 3, 2 >> :> << << 2, 0, 2926 >>, << 1, 1, 3357 >>, << 0, 2, 3717 >> >>)

\* probabilities_single_battle.py: all_battles_nm() is the frequency
\* histogram of the losses over all the rolls of n and m dice, the dice of
\* each side in descending order: h[x] / n is kept as the pair of h and n
battle_losses_11(a_, b_) == IF a_ > b_ THEN << 0, 1 >> ELSE << 1, 0 >>

battle_losses_22(a_, b_, c_, d_) ==
    LET max_ == battle_losses_11(a_, c_)
        min_ == battle_losses_11(b_, d_)
    IN  << max_[1] + min_[1], max_[2] + min_[2] >>

all_battles(n, m) ==
    LET X == { << r_a, r_d >> : r_a \in [ 1..n -> 1..DieFaces ], r_d \in [ 1..m -> 1..DieFaces ] }
        losses(x) ==
            LET A_ == sorted_reverse(x[1])
                D_ == sorted_reverse(x[2])
            IN  IF n >= 2 /\ m = 2 THEN battle_losses_22(A_[1], A_[2], D_[1], D_[2])
                ELSE battle_losses_11(A_[1], D_[1])
        seen == { losses(x) : x \in X }
    IN  [ h |-> [ o \in seen |-> Cardinality({ x \in X : losses(x) = o }) ],
          n |-> Cardinality(X) ]

Call_all_battles ==
    /\ test = NoCall
    /\ \E n \in 1..3, m \in 1..2 :
        test' = outcome("all_battles", << n, m >>, FALSE, None, << all_battles(n, m) >>, "")
    /\ UNCHANGED locals

Call_prob_table ==
    /\ test = NoCall
    /\ \E n \in 0..MaxAttackDice, m \in 0..MaxDefendDice :
        test' = outcome("_prob_table", << n, m >>, FALSE, None, << prob_table(n, m) >>, "")
    /\ UNCHANGED locals

\* _ROLL_ODDS.get((ad, dd), {})
Call_ROLL_ODDS ==
    /\ test = NoCall
    /\ \E n \in 0..MaxAttackDice, m \in 0..MaxDefendDice :
        test' = outcome("_ROLL_ODDS", << n, m >>, FALSE, None,
                        << IF << n, m >> \in DOMAIN ROLL_ODDS THEN ROLL_ODDS[<< n, m >>] ELSE << >> >>, "")
    /\ UNCHANGED locals

\* BALANCED_BATTLE_OUTCOMES[(ad, dd)]
Call_BALANCED_BATTLE_OUTCOMES ==
    /\ test = NoCall
    /\ \E n \in 0..MaxAttackDice, m \in 0..MaxDefendDice :
        IF << n, m >> \in DOMAIN BALANCED_BATTLE_OUTCOMES
        THEN test' = outcome("BALANCED_BATTLE_OUTCOMES", << n, m >>, FALSE, None,
                             << BALANCED_BATTLE_OUTCOMES[<< n, m >>] >>, "")
        ELSE test' = outcome("BALANCED_BATTLE_OUTCOMES", << n, m >>, FALSE, None, None, "KeyError")
    /\ UNCHANGED locals


\* --------------------------------------------------- conquest probability
\* A float in 0.0 .. 1.0 is kept exactly, as its integer part followed by its
\* digits in base Scale: 0.583 is << 0, 5830 >>, 0.583 * 0.417 is
\* << 0, 2431, 1100 >>.  The rounding of the floating-point operations is
\* not part of the model.
float_zero == << 0 >>

float_one == << 1 >>

RECURSIVE float_trim(_)
float_trim(x) ==
    IF Len(x) > 1 /\ x[Len(x)] = 0 THEN float_trim(SubSeq(x, 1, Len(x) - 1)) ELSE x

float_pad(x, n) == x \o [ i \in 1..(n - Len(x)) |-> 0 ]

RECURSIVE float_carry_times(_, _, _)
float_carry_times(q, x, carry) ==
    IF x = << >> THEN << carry >>
    ELSE LET v == q * x[Len(x)] + carry
         IN  Append(float_carry_times(q, SubSeq(x, 1, Len(x) - 1), v \div Scale), v % Scale)

\* q * x, for q the ten-thousandths of a probability of a table
float_times(q, x) == float_trim(float_carry_times(q, x, 0))

RECURSIVE float_carry_plus(_, _, _)
float_carry_plus(x, y, carry) ==
    LET v == x[Len(x)] + y[Len(y)] + carry
    IN  IF Len(x) = 1 THEN << v >>
        ELSE Append(float_carry_plus(SubSeq(x, 1, Len(x) - 1), SubSeq(y, 1, Len(y) - 1), v \div Scale),
                    v % Scale)

\* x + y
float_plus(x, y) ==
    LET n == IF Len(x) < Len(y) THEN Len(y) ELSE Len(x)
    IN  float_trim(float_carry_plus(float_pad(x, n), float_pad(y, n), 0))

\* x < y
float_less(x, y) ==
    LET n == IF Len(x) < Len(y) THEN Len(y) ELSE Len(x)
        x_ == float_pad(x, n)
        y_ == float_pad(y, n)
    IN  \E i \in 1..n : x_[i] < y_[i] /\ \A h \in 1..(i - 1) : x_[h] = y_[h]

\* Python computes a value where the statement stands: x is computed here,
\* and not when a later statement reads it
computed(x) == x = x

\* odds.items(): the losses of a table's entry in the order of the literal,
\* the larger loss of the attacker first
items(odds) ==
    [ i \in 1..Cardinality(DOMAIN odds) |->
        CHOOSE o \in DOMAIN odds : Cardinality({ x \in DOMAIN odds : x[1] > o[1] }) = i - 1 ]

\* ais/probabilistic.py: conquest_prob(A, D) under @lru_cache; the cache is
\* threaded through the calls, and a call answers with its value and the cache.
\* The loop over _prob_table(a, d).items() has two or three iterations, r1,
\* r2 and r3 being the calls they make one after the other and p1, p2 and p3
\* the values of p after them.
RECURSIVE conquest_prob_cached(_, _, _)
conquest_prob_cached(A_, D_, cache) ==
    IF << A_, D_ >> \in DOMAIN cache THEN [ value |-> cache[<< A_, D_ >>], cache |-> cache ]
    ELSE IF D_ = 0 THEN [ value |-> float_one, cache |-> (<< A_, D_ >> :> float_one) @@ cache ]
    ELSE IF A_ <= 1 THEN [ value |-> float_zero, cache |-> (<< A_, D_ >> :> float_zero) @@ cache ]
    ELSE LET odds == prob_table(min(3, A_ - 1), min(2, D_))
             its == items(odds)
             r1 == conquest_prob_cached(A_ - its[1][1], D_ - its[1][2], cache)
             r2 == conquest_prob_cached(A_ - its[2][1], D_ - its[2][2], r1.cache)
             r3 == IF Len(its) < 3 THEN r2
                   ELSE conquest_prob_cached(A_ - its[3][1], D_ - its[3][2], r2.cache)
             p1 == float_plus(float_zero, float_times(odds[its[1]], r1.value))
             p2 == float_plus(p1, float_times(odds[its[2]], r2.value))
             p3 == IF Len(its) < 3 THEN p2 ELSE float_plus(p2, float_times(odds[its[3]], r3.value))
         IN  IF computed(r1) /\ computed(r2) /\ computed(r3)
             THEN [ value |-> p3, cache |-> (<< A_, D_ >> :> p3) @@ r3.cache ]
             ELSE r3

conquest_prob(A_, D_) == conquest_prob_cached(A_, D_, << >>).value

\* strategy/attacks.py: conquest_prob(attackers, defenders), row by row
\* a choice of the row that never reads the row before the previous one
attacks_base_previous(loss_d, curr, prev1, prev2) == IF loss_d = 0 THEN curr ELSE prev1

\* base = curr if loss_d == 0 else (prev1 if loss_d == 1 else prev2)
attacks_base(loss_d, curr, prev1, prev2) ==
    IF loss_d = 0 THEN curr ELSE IF loss_d = 1 THEN prev1 ELSE prev2

RECURSIVE attacks_sum(_, _, _, _, _, _, _)
attacks_sum(odds, i, v, cur_a, curr, prev1, prev2) ==
    IF i > Cardinality(DOMAIN odds) THEN v
    ELSE LET o == items(odds)[i]
             prob == odds[o]
             aa == IF cur_a - o[1] < 0 THEN 0 ELSE cur_a - o[1]
         IN  IF prob <= 0 THEN attacks_sum(odds, i + 1, v, cur_a, curr, prev1, prev2)
             ELSE attacks_sum(odds, i + 1,
                              float_plus(v, float_times(prob, attacks_base(o[2], curr, prev1, prev2)[aa])),
                              cur_a, curr, prev1, prev2)

\* for cur_a in range(2, A + 1)
RECURSIVE attacks_row(_, _, _, _, _, _)
attacks_row(A_, cur_d, cur_a, curr, prev1, prev2) ==
    IF cur_a > A_ THEN curr
    ELSE LET ad == min(3, cur_a - 1)
             dd == min(2, cur_d)
             odds == IF << ad, dd >> \in DOMAIN ROLL_ODDS THEN ROLL_ODDS[<< ad, dd >>] ELSE << >>
             v == attacks_sum(odds, 1, float_zero, cur_a, curr, prev1, prev2)
         IN  IF computed(v) THEN attacks_row(A_, cur_d, cur_a + 1, [ curr EXCEPT ![cur_a] = v ], prev1, prev2)
             ELSE curr

\* for cur_d in range(1, D + 1)
RECURSIVE attacks_rows(_, _, _, _, _)
attacks_rows(A_, D_, cur_d, prev1, prev2) ==
    IF cur_d > D_ THEN prev1[A_]
    ELSE LET curr == attacks_row(A_, cur_d, 2, [ i \in 0..A_ |-> float_zero ], prev1, prev2)
         IN  IF computed(curr) THEN attacks_rows(A_, D_, cur_d + 1, curr, prev1) ELSE curr

attacks_conquest_prob(attackers, defenders) ==
    LET a_ == max(0, attackers)
        d_ == max(0, defenders)
    IN  IF d_ <= 0 THEN float_one
        ELSE IF a_ <= 1 THEN float_zero
        ELSE attacks_rows(a_, d_, 1, [ i \in 0..a_ |-> float_one ], [ i \in 0..a_ |-> float_zero ])

Call_conquest_prob ==
    /\ test = NoCall
    /\ \E A_ \in 0..MaxConquest, D_ \in 0..MaxConquest :
        test' = outcome("ais.probabilistic.conquest_prob", << A_, D_ >>, FALSE, None,
                        << conquest_prob(A_, D_) >>, "")
    /\ UNCHANGED locals

Call_attacks_conquest_prob ==
    /\ test = NoCall
    /\ \E A_ \in 0..MaxConquest, D_ \in 0..MaxConquest :
        test' = outcome("strategy.attacks.conquest_prob", << A_, D_ >>, FALSE, None,
                        << attacks_conquest_prob(A_, D_) >>, "")
    /\ UNCHANGED locals

NextDice ==
    \/ Call_fight_random_outcome
    \/ Call_all_battles
    \/ Call_prob_table
    \/ Call_ROLL_ODDS
    \/ Call_BALANCED_BATTLE_OUTCOMES
    \/ Call_conquest_prob
    \/ Call_attacks_conquest_prob

SpecDice == InitSetup /\ [][NextDice]_vars

\* ============================================================== tournaments
\* A tournament plays num_games games.  What game() does in a game is a fact
\* of that game: it is won by one of the players, it reaches the turn limit,
\* its history is empty, or an assertion of the engine fails in it.
player_names == { "p1", "p2" }

game_outcomes ==
    { [ kind |-> "won", winner |-> x ] : x \in player_names }
        \cup { [ kind |-> "limit", winner |-> x ] : x \in player_names }
        \cup { [ kind |-> "empty" ], [ kind |-> "AssertionError" ] }

others == << heap, s, r_max, j, S, a, R, K, I, k, n_d, p, pc, err, calls, slots, willing, test >>

\* ------------------------------------------------- tournament_parallel.py
TournamentStats_init(names) ==
    [ games_played |-> 0, wins |-> [ x \in names |-> 0 ], game_log |-> << >> ]

record_game(stats, winner, game_num) ==
    [ games_played |-> stats.games_played + 1,
      wins |-> [ stats.wins EXCEPT ![winner] = @ + 1 ],
      game_log |-> Append(stats.game_log, [ game |-> game_num, winner |-> winner ]) ]

\* run_single_game_worker: the result of the worker for a game that did o,
\* the tuple of the game or None; the army that leads is the winner also of
\* a game stopped at the turn limit
run_single_game_worker(game_num, o) ==
    IF o.kind \in { "won", "limit" } THEN << [ game |-> game_num, winner |-> o.winner ] >>
    ELSE None

\* an interrupted tournament that keeps nothing
partial_results_none(stats) == None

\* except KeyboardInterrupt: what is reported and saved, None for nothing
partial_results(stats) == IF stats.games_played > 0 THEN << stats >> ELSE None

\* the futures are submitted and the loop over as_completed(futures) begins
run_tournament_init(num_games, workers) ==
    [ runner |-> "tournament_parallel",
      num_games |-> num_games,
      workers |-> workers,
      futures |-> [ x \in 1..num_games |-> [ state |-> "queued" ] ],
      played |-> << >>,
      errors |-> { },
      stats |-> TournamentStats_init(player_names),
      games_completed |-> 0,
      pc |-> "loop",
      reported |-> None,
      saved |-> None,
      raised |-> "" ]

\* a worker process takes the next task of the queue
Worker_start ==
    /\ batch.runner = "tournament_parallel"
    /\ batch.pc = "loop"
    /\ Cardinality({ x \in 1..batch.num_games : batch.futures[x].state = "running" }) < batch.workers
    /\ \E x \in 1..batch.num_games :
        /\ batch.futures[x].state = "queued"
        /\ \A y \in 1..(x - 1) : batch.futures[y].state # "queued"
        /\ batch' = [ batch EXCEPT !.futures[x] = [ state |-> "running" ] ]
    /\ UNCHANGED others

\* run_single_game_worker returns; except Exception prints the error of the
\* game and makes the result None
Worker_return ==
    /\ batch.runner = "tournament_parallel"
    /\ batch.pc = "loop"
    /\ \E x \in 1..batch.num_games, o \in game_outcomes :
        /\ batch.futures[x].state = "running"
        /\ batch' = [ batch EXCEPT
                        !.futures[x] = [ state |-> "done", result |-> run_single_game_worker(x, o) ],
                        !.played = (x :> o.kind) @@ @,
                        !.errors = IF o.kind = "AssertionError" THEN @ \cup { x } ELSE @ ]
    /\ UNCHANGED others

\* for future in as_completed(futures): result = future.result(); if result: ...
Collect ==
    /\ batch.runner = "tournament_parallel"
    /\ batch.pc = "loop"
    /\ \E x \in 1..batch.num_games :
        /\ batch.futures[x].state = "done"
        /\ LET result == batch.futures[x].result
           IN  batch' = [ batch EXCEPT
                            !.futures[x] = [ state |-> "consumed" ],
                            !.stats = IF result # None
                                      THEN record_game(@, result[1].winner, result[1].game) ELSE @,
                            !.games_completed = IF result # None THEN @ + 1 ELSE @ ]
    /\ UNCHANGED others

\* the loop and the with block end
Loop_end ==
    /\ batch.runner = "tournament_parallel"
    /\ batch.pc = "loop"
    /\ \A x \in 1..batch.num_games : batch.futures[x].state = "consumed"
    /\ batch' = [ batch EXCEPT !.pc = "final" ]
    /\ UNCHANGED others

\* print_final_statistics and save_results
Finish ==
    /\ batch.runner = "tournament_parallel"
    /\ batch.pc = "final"
    /\ batch' = [ batch EXCEPT !.pc = "done", !.reported = << batch.stats >>, !.saved = << batch.stats >> ]
    /\ UNCHANGED others

\* KeyboardInterrupt inside the try block: the results of the futures that
\* were not consumed are not looked at
Interrupt ==
    /\ batch.runner = "tournament_parallel"
    /\ batch.pc \in { "loop", "final" }
    /\ batch' = [ batch EXCEPT !.pc = "interrupted",
                               !.reported = partial_results(batch.stats),
                               !.saved = partial_results(batch.stats) ]
    /\ UNCHANGED others

\* ---------------------------------------------------------- tournament.py
Stats_init(players) ==
    [ games |-> 0, finished |-> 0, draws |-> 0, wins |-> [ x \in players |-> 0 ] ]

\* play_one_game: (winner, ended) of a game that did o and returned
play_one_game(o) ==
    IF o.kind = "won" THEN [ winner |-> << o.winner >>, ended |-> TRUE ]
    ELSE [ winner |-> None, ended |-> FALSE ]

Stats_add(stats, winner, ended) ==
    IF ended /\ winner # None
    THEN [ stats EXCEPT !.games = @ + 1, !.finished = @ + 1, !.wins[winner[1]] = @ + 1 ]
    ELSE [ stats EXCEPT !.games = @ + 1, !.draws = @ + 1 ]

main_init(num_games) ==
    [ runner |-> "tournament",
      num_games |-> num_games,
      g |-> 0,
      played |-> << >>,
      errors |-> { },
      stats |-> Stats_init(player_names),
      pc |-> "loop",
      reported |-> None,
      saved |-> None,
      raised |-> "" ]

\* for g in range(args.games): play_one_game(...); stats.add(...)
\* an exception of the game leaves play_one_game and main
Main_play ==
    /\ batch.runner = "tournament"
    /\ batch.pc = "loop"
    /\ batch.g < batch.num_games
    /\ \E o \in game_outcomes :
        IF o.kind = "AssertionError"
        THEN batch' = [ batch EXCEPT !.played = ((batch.g + 1) :> o.kind) @@ @,
                                     !.pc = "aborted",
                                     !.raised = "AssertionError" ]
        ELSE batch' = [ batch EXCEPT !.played = ((batch.g + 1) :> o.kind) @@ @,
                                     !.g = @ + 1,
                                     !.stats = Stats_add(@, play_one_game(o).winner, play_one_game(o).ended) ]
    /\ UNCHANGED others

\* the final statistics and save_results_txt
Main_finish ==
    /\ batch.runner = "tournament"
    /\ batch.pc = "loop"
    /\ batch.g = batch.num_games
    /\ batch' = [ batch EXCEPT !.pc = "done", !.reported = << batch.stats >>, !.saved = << batch.stats >> ]
    /\ UNCHANGED others

InitTournament ==
    /\ heap = << >>
    /\ r_max = None
    /\ willing = 0
    /\ Start
    /\ batch \in { run_tournament_init(n, w) : n \in 1..MaxGames, w \in 1..MaxWorkers }
                    \cup { main_init(n) : n \in 1..MaxGames }

NextTournament ==
    \/ Worker_start
    \/ Worker_return
    \/ Collect
    \/ Loop_end
    \/ Finish
    \/ Interrupt
    \/ Main_play
    \/ Main_finish

SpecTournament == InitTournament /\ [][NextTournament]_vars

\* ============================================================ enumerations
\* model/state_transitions.py: attacks(s, a), the (t_a, t_d, n + 1) of the list
attacks_check(d, b) ==
    IF b \notin armies THEN "attacks: attacking army must exist" ELSE ""

attacks(d, b) ==
    UNION { { << q[1], q[2], n + 1 >> : n \in 0..(min(3, territory_units(d, q[1])) - 1) } :
            q \in { x \in adjacencies : /\ territory_occupant(d, x[1]) = b
                                       /\ territory_occupant(d, x[2]) # b
                                       /\ territory_units(d, x[1]) > 1 } }

\* model/state_transitions.py: maneuvers(s, a), the (t_0, t_1, n + 1) of the list
maneuvers_check(d, b) ==
    IF b \notin armies THEN "maneuvers: moving army must exist" ELSE ""

maneuvers(d, b) ==
    UNION { { << q[1], q[2], n + 1 >> : n \in 0..(territory_units(d, q[1]) - 1) } :
            q \in { x \in adjacencies : /\ territory_occupant(d, x[1]) = b
                                       /\ territory_occupant(d, x[2]) = b
                                       /\ territory_units(d, x[1]) > 1 } }

\* strategy/attacks.py: random_attack(s, a): the list A that choice draws from
random_attack_pre(d, b) ==
    IF b \notin armies THEN "random_attack: the army must belong to the current state"
    ELSE IF is_defeated_army(d, b) THEN "random_attack: The army must not be defeated"
    ELSE ""

random_attack_A(d, b) ==
    UNION { { << q[1], q[2], n >> : n \in 1..min(3, territory_units(d, q[1]) - 1) } :
            q \in { x \in adjacencies : /\ territory_occupant(d, x[1]) = b
                                       /\ territory_occupant(d, x[2]) # b
                                       /\ territory_units(d, x[1]) > 1 } }

random_attack_post(d, b, result) ==
    IF result = None THEN ""
    ELSE LET t_a == result[1][1]
             t_d == result[1][2]
             n == result[1][3]
         IN  IF t_a \notin DOMAIN d THEN "random_attack: The attacking territory belongs to the current state"
             ELSE IF t_d \notin DOMAIN d THEN "random_attack: The defending territory belongs to the current state"
             ELSE IF territory_occupant(d, t_a) # b THEN "random_attack: The attacking territory is occupied by the army"
             ELSE IF territory_occupant(d, t_d) = b THEN "random_attack: The defending territory is not occupied by the army"
             ELSE IF n \notin { 1, 2, 3 } THEN "random_attack: The attacking units is between one and three"
             ELSE IF ~(n < territory_units(d, t_a))
                  THEN "random_attack: The attacking units is strictly less than the number of available units"
             ELSE ""

Call_attacks ==
    /\ test = NoCall
    /\ \E b \in any_armies :
        LET c == attacks_check(Dict(s), b)
        IN  test' = outcome("attacks", << b >>, FALSE, None,
                            IF c = "" THEN << attacks(Dict(s), b) >> ELSE None, c)
    /\ UNCHANGED locals

Call_maneuvers ==
    /\ test = NoCall
    /\ \E b \in any_armies :
        LET c == maneuvers_check(Dict(s), b)
        IN  test' = outcome("maneuvers", << b >>, FALSE, None,
                            IF c = "" THEN << maneuvers(Dict(s), b) >> ELSE None, c)
    /\ UNCHANGED locals

\* random_attack(s, a): None when A is empty, else any element of A
Call_random_attack ==
    /\ test = NoCall
    /\ \E b \in any_armies :
        IF random_attack_pre(Dict(s), b) # ""
        THEN test' = outcome("random_attack", << b >>, FALSE, None, None, random_attack_pre(Dict(s), b))
        ELSE \E result \in (IF random_attack_A(Dict(s), b) = { } THEN { None }
                            ELSE { << x >> : x \in random_attack_A(Dict(s), b) }) :
                LET c == random_attack_post(Dict(s), b, result)
                IN  test' = outcome("random_attack", << b >>, TRUE, result,
                                    IF c = "" THEN result ELSE None, c)
    /\ UNCHANGED locals

NextEnumerations ==
    \/ Call_attacks
    \/ Call_maneuvers
    \/ Call_random_attack

SpecEnumerations == InitCalls /\ [][NextEnumerations]_vars

\* ===================================================== reinforcement functions
\* The functions that choose a reinforcement are called on boards of up to
\* MaxTerritories territories that all border each other, held by two armies.
reinforce_world(m) ==
    [ armies |-> { "blue", "green" },
      regions |-> DOMAIN board_M(m),
      territories |-> World_territories(board_M(m)),
      adjacencies |-> World_adjacencies(board_Gamma(m)),
      region_territories |-> board_M(m),
      region_value |-> [ r \in DOMAIN board_M(m) |-> World_region_value(board_M(m), r) ] ]

reinforce_dicts(w) == [ w.territories -> w.armies \X (1..MaxBorderUnits) ]

\* territories_occupied_by_army, reinforcement_units and is_defeated_army on
\* a State of the World w
occupied_in(w, d, b) == { t \in w.territories : d[t][1] = b }

reinforcement_units_in(w, d, b) ==
    Max(3, (Cardinality(occupied_in(w, d, b)) \div 3)
           + SumOver(w.region_value,
                     { r \in w.regions : w.region_territories[r] \subseteq occupied_in(w, d, b) }))

\* _my_border_territories, _prob_border_territories
border_territories_in(w, d, b) ==
    { t \in occupied_in(w, d, b) :
        \E n \in w.territories : << t, n >> \in w.adjacencies /\ d[n][1] # b }

\* the assertions that open random_reinforcement, random_uniform_reinforcement
\* and reinforce_borders_heavy
random_reinforcement_pre(w, d, b) ==
    IF b \notin w.armies THEN "unknown army to reinforce"
    ELSE IF occupied_in(w, d, b) = { } THEN "defeated army cannot be reinforced"
    ELSE IF ~(reinforcement_units_in(w, d, b) > 0) THEN "reinforcement units have to be strictly positive"
    ELSE ""

\* the assertions that close random_reinforcement
random_reinforcement_post(w, d, b, result) ==
    IF \E t \in DOMAIN result : d[t][1] # b THEN "The selected territories belong to the army"
    ELSE IF \E t \in DOMAIN result : ~(result[t] > 0)
        THEN "Each selected territory must receive at least one unit"
    ELSE IF SumOver(result, DOMAIN result) # reinforcement_units_in(w, d, b)
        THEN "The sum of all the reinforcement units must be equal to {reinforcement_units(s, a)}"
    ELSE ""

\* random_reinforcement: k territories get q units each, and r times one of
\* them, drawn by choice, gets one more
random_reinforcement(w, d, b) ==
    LET T_a == occupied_in(w, d, b)
        u_a == reinforcement_units_in(w, d, b)
    IN  UNION { UNION { { [ t \in X |-> (u_a \div Cardinality(X)) + e[t] ] :
                            e \in { f \in [ X -> 0..(u_a % Cardinality(X)) ] :
                                       SumOver(f, X) = u_a % Cardinality(X) } } :
                        X \in { Y \in SUBSET T_a : Cardinality(Y) = n } } :
                n \in 1..Min(u_a, Cardinality(T_a)) }

\* random_uniform_reinforcement: after the shuffle the first u_a % len(T_a)
\* territories get one unit more than the others, and a territory whose
\* share is 0 is left out
random_uniform_reinforcement(w, d, b) ==
    LET T_a == occupied_in(w, d, b)
        u_a == reinforcement_units_in(w, d, b)
        n == Cardinality(T_a)
    IN  { [ t \in { x \in T_a : (u_a \div n) + (IF x \in X THEN 1 ELSE 0) > 0 } |->
              (u_a \div n) + (IF t \in X THEN 1 ELSE 0) ] :
            X \in { Y \in SUBSET T_a : Cardinality(Y) = u_a % n } }

random_uniform_reinforcement_post(w, d, b, result) ==
    IF random_reinforcement_post(w, d, b, result) # "" THEN random_reinforcement_post(w, d, b, result)
    ELSE IF \E t_0 \in DOMAIN result, t_1 \in DOMAIN result :
                result[t_0] - result[t_1] > 1 \/ result[t_1] - result[t_0] > 1
        THEN "uniform distribution of the units"
    ELSE ""

\* sorted(X, key=lambda t: -territory_units(s, t)): the orders of the
\* territories of X by decreasing units; territories with the same units
\* keep the order in which the set gave them, which is any
sorted_by_units(d, X) ==
    { q \in shuffled(X) : \A i \in DOMAIN q, h \in DOMAIN q : i < h => d[q[i]][2] >= d[q[h]][2] }

\* the units that the i-th territory of n gets when U units are dealt one at
\* a time, in turn
dealt(U, n, i) == (U \div n) + (IF i <= U % n THEN 1 ELSE 0)

\* ais/probabilistic.py: reinforce_border_first; R starts as {t: 0 for t in borders}
ais_reinforce_border_first(w, d, b) ==
    LET U == reinforcement_units_in(w, d, b)
        borders == border_territories_in(w, d, b)
    IN  IF U <= 0 THEN { << >> }
        ELSE IF borders = { }
        THEN { (q[1] :> U) : q \in sorted_by_units(d, occupied_in(w, d, b)) }
        ELSE { [ t \in borders |-> dealt(U, Len(q), CHOOSE i \in DOMAIN q : q[i] = t) ] :
                 q \in sorted_by_units(d, borders) }

\* strategy/reinforcements.py: reinforce_border_first; allocation starts empty
reinforce_border_first(w, d, b) ==
    LET units == reinforcement_units_in(w, d, b)
        borders == border_territories_in(w, d, b)
    IN  IF borders = { }
        THEN { (q[1] :> units) : q \in sorted_by_units(d, occupied_in(w, d, b)) }
        ELSE { [ t \in { q[i] : i \in 1..Min(units, Len(q)) } |->
                   dealt(units, Len(q), CHOOSE i \in DOMAIN q : q[i] = t) ] :
                 q \in sorted_by_units(d, borders) }

\* a call of one of the functions, on any State of any of the boards, for
\* any army of the board
Call_random_reinforcement ==
    /\ test = NoCall
    /\ \E m \in 2..MaxTerritories :
        \E d \in reinforce_dicts(reinforce_world(m)), b \in reinforce_world(m).armies :
            LET w == reinforce_world(m)
            IN  IF random_reinforcement_pre(w, d, b) # ""
                THEN test' = outcome("random_reinforcement", << w, d, b >>, FALSE, None, None,
                                     random_reinforcement_pre(w, d, b))
                ELSE \E result \in random_reinforcement(w, d, b) :
                        LET c == random_reinforcement_post(w, d, b, result)
                        IN  test' = outcome("random_reinforcement", << w, d, b >>, FALSE, None,
                                            IF c = "" THEN << result >> ELSE None, c)
    /\ UNCHANGED locals

Call_random_uniform_reinforcement ==
    /\ test = NoCall
    /\ \E m \in 2..MaxTerritories :
        \E d \in reinforce_dicts(reinforce_world(m)), b \in reinforce_world(m).armies :
            LET w == reinforce_world(m)
            IN  IF random_reinforcement_pre(w, d, b) # ""
                THEN test' = outcome("random_uniform_reinforcement", << w, d, b >>, FALSE, None, None,
                                     random_reinforcement_pre(w, d, b))
                ELSE \E result \in random_uniform_reinforcement(w, d, b) :
                        LET c == random_uniform_reinforcement_post(w, d, b, result)
                        IN  test' = outcome("random_uniform_reinforcement", << w, d, b >>, FALSE, None,
                                            IF c = "" THEN << result >> ELSE None, c)
    /\ UNCHANGED locals

\* reinforcement_units(s, a) raises for a defeated army
Call_ais_reinforce_border_first ==
    /\ test = NoCall
    /\ \E m \in 2..MaxTerritories :
        \E d \in reinforce_dicts(reinforce_world(m)), b \in reinforce_world(m).armies :
            LET w == reinforce_world(m)
            IN  IF occupied_in(w, d, b) = { }
                THEN test' = outcome("ais.probabilistic.reinforce_border_first", << w, d, b >>, FALSE,
                                     None, None, "a defeated army cannot claim fresh units")
                ELSE \E result \in ais_reinforce_border_first(w, d, b) :
                        test' = outcome("ais.probabilistic.reinforce_border_first", << w, d, b >>, FALSE,
                                        None, << result >>, "")
    /\ UNCHANGED locals

Call_reinforce_border_first ==
    /\ test = NoCall
    /\ \E m \in 2..MaxTerritories :
        \E d \in reinforce_dicts(reinforce_world(m)), b \in reinforce_world(m).armies :
            LET w == reinforce_world(m)
            IN  IF occupied_in(w, d, b) = { }
                THEN test' = outcome("strategy.reinforcements.reinforce_border_first", << w, d, b >>, FALSE,
                                     None, None, "a defeated army cannot claim fresh units")
                ELSE \E result \in reinforce_border_first(w, d, b) :
                        test' = outcome("strategy.reinforcements.reinforce_border_first", << w, d, b >>,
                                        FALSE, None, << result >>, "")
    /\ UNCHANGED locals

NextReinforcements ==
    \/ Call_random_reinforcement
    \/ Call_random_uniform_reinforcement
    \/ Call_ais_reinforce_border_first
    \/ Call_reinforce_border_first

SpecReinforcements == InitSetup /\ [][NextReinforcements]_vars

\* ========================================================= neutral strategies
\* mutant: the neutral army launches the first attack it can
never_attack_sometimes(d, b) ==
    IF attacks(d, b) = { } THEN None
    ELSE CHOOSE x \in attacks(d, b) : x[3] < territory_units(d, x[1]) \/ attacks(d, b) = { x }

\* never_attack: always None, once its assertions have passed
never_attack_check(d, b) ==
    IF b \notin armies THEN "the army must belong to the world" ELSE ""

never_attack(d, b) == None

\* never_invade: never returns
never_invade_check(d, t_a, t_d, n_a, p_a) ==
    IF t_a \notin DOMAIN d THEN "never_invade: t_a in s.state"
    ELSE IF t_d \notin DOMAIN d THEN "never_invade: t_d in s.state"
    ELSE IF territory_occupant(d, t_a) = territory_occupant(d, t_d)
        THEN "the armies of the two territories must be distinct"
    ELSE IF ~(n_a > 0) THEN "invasion requires at least one unit"
    ELSE "A neutral army should never invade since it has never attacked"

\* the armies that G binds to strategy_neutral_fully_random or to
\* strategy_neutral_uniform_random; the other armies play any strategy
neutral_armies == { "green" }

\* lines 84 and 85 of game(), for the strategy of the army
BoundAttack ==
    /\ pc = "attack"
    /\ \E result \in IF a \in neutral_armies THEN { never_attack(Dict(s), a) }
                     ELSE attack_results(willing) :
        LET c0 == IF a \in neutral_armies THEN never_attack_check(Dict(s), a) ELSE ""
            c == Strategy_attack_check(Dict(s), a, result)
        IN  IF c0 # "" THEN Raise(c0)
            ELSE IF c # "" THEN Raise(c)
            ELSE /\ calls' = Append(calls, call("attack", strategy(a), result = None))
                 /\ k' = result
                 /\ pc' = after_attack(result)
                 /\ willing' = IF result = None THEN willing ELSE willing - 1
                 /\ UNCHANGED << heap, s, r_max, j, S, a, R, K, I, n_d, p, err, slots, test, batch >>

\* lines 90 to 92 of game(), for the strategy of the army
BoundInvade ==
    IF a \in neutral_armies
    THEN /\ pc = "invade"
         /\ LET c1 == Strategy_invade_pre(Dict(s), k[1], k[2], k[3], p[1])
            IN  IF c1 # "" THEN Raise(c1)
                ELSE Raise(never_invade_check(Dict(s), k[1], k[2], k[3], p[1]))
    ELSE Invade

NextNeutral ==
    \/ Return
    \/ Skip
    \/ Reinforce
    \/ BoundAttack
    \/ Defend
    \/ Fight
    \/ BoundInvade
    \/ Maneuver

SpecNeutral == Init /\ [][NextNeutral]_vars

\* ================================================================== claims
\* the dict of the i-th State of the history
history_dict(i) == heap[S[i][2].state]

\* the dict of the State the current turn started from
previous_dict == IF S = << >> THEN heap[1] ELSE history_dict(Len(S))

total_units(d) == SumOver([ t \in territories |-> territory_units(d, t) ], territories)

\* C1: every State reached by game() from a valid initial State is valid: its
\* map is defined on exactly the territories of the World, every territory is
\* occupied by one army of the World and holds at least one unit.
C1_StateValid ==
    /\ valid_dict(Dict(s))
    /\ \A i \in 1..Len(S) : valid_dict(history_dict(i))

\* a game in which a territory was invaded after a round that only buried
\* units, and that ended its turn with a maneuver
C1_Witness ==
    /\ pc = "done"
    /\ \E i \in 1..Len(S) :
        /\ Len(S[i][1][3]) > 0
        /\ Len(S[i][1][2]) > Len(S[i][1][3])
        /\ S[i][1][4] # None

\* C2: the transitions never modify their input State: the initial State and
\* every State of the history keep their dict from one step to the next, and
\* all the States of a game reference the same World.
C2_StatesPersist ==
    /\ [](s.world = WorldRef /\ \A i \in 1..Len(S) : S[i][2].world = WorldRef)
    /\ [][ pc' # "failed" =>
             /\ heap'[1] = heap[1]
             /\ \A i \in 1..Len(S) :
                  /\ S'[i] = S[i]
                  /\ heap'[S[i][2].state] = heap[S[i][2].state] ]_vars

\* a second turn has changed the board after the first one was stored
C2_Witness ==
    /\ Len(S) >= 2
    /\ history_dict(1) # history_dict(2)
    /\ history_dict(1) # heap[1]

\* C8: game_over holds iff exactly one army occupies territories,
\* winning_army is that army and None otherwise, and is_defeated_army holds
\* iff the army occupies no territory.
C8_WinDetection ==
    LET d == Dict(s)
        occupants == { b \in armies : \E t \in territories : d[t][1] = b }
    IN  /\ game_over(d) <=> Cardinality(occupants) = 1
        /\ winning_army(d) = IF Cardinality(occupants) = 1
                             THEN << CHOOSE b \in occupants : TRUE >> ELSE None
        /\ \A b \in armies : is_defeated_army(d, b) <=> ~(\E t \in territories : d[t][1] = b)

\* a game won by an army during the game, with a defeated army
C8_Witness ==
    /\ Len(S) >= 1
    /\ game_over(Dict(s))
    /\ ~game_over(heap[1])
    /\ \E b \in armies : is_defeated_army(Dict(s), b)


RECURSIVE turn_position(_)
\* where a turn stands after the strategy calls of log, "bad" when they do not
\* follow reinforce, then (attack, defend, invade or not) as long as attack
\* answers, then the attack that answers None, then maneuver
turn_position(log) ==
    IF log = << >> THEN "start"
    ELSE LET q == turn_position(SubSeq(log, 1, Len(log) - 1))
             c == log[Len(log)]
         IN  IF q = "start" /\ c.fn = "reinforce" THEN "attack"
             ELSE IF q \in { "attack", "fought" } /\ c.fn = "attack"
                 THEN (IF c.none THEN "maneuver" ELSE "defend")
             ELSE IF q = "defend" /\ c.fn = "defend" THEN "fought"
             ELSE IF q = "fought" /\ c.fn = "invade" THEN "attack"
             ELSE IF q = "maneuver" /\ c.fn = "maneuver" THEN "end"
             ELSE "bad"

\* C3: in every turn, reinforce is called once and its result applied before
\* any attack, attack is called until it first answers None, maneuver is
\* called once after the attack loop, and nothing is called after it.
C3_TurnOrder ==
    LET q == turn_position(calls)
    IN  /\ q # "bad"
        /\ pc = "attack" => q \in { "attack", "fought" }
        /\ pc = "defend" => q = "defend"
        /\ pc \in { "fight", "invade" } => q = "fought"
        /\ pc = "maneuver" => q = "maneuver"
        /\ pc \in { "loop", "done" } => q \in { "start", "end" }
        /\ (pc = "attack" /\ Len(calls) = 1) => Dict(s) = do_reinforce(previous_dict, R)

\* a turn with two battles, one of them followed by an invasion, is complete
C3_Witness ==
    /\ pc = "loop"
    /\ Len(calls) = 9
    /\ turn_position(calls) = "end"

\* C4: the armies are served in one fixed cyclic order; a defeated army is
\* skipped, without any call to its strategy and without any history entry;
\* every slot of an undefeated army appends exactly one entry to the history.
C4_RoundRobin ==
    /\ [](pc # "failed" =>
            /\ Len(slots) = j
            /\ \A i \in 1..Len(slots) : slots[i][1] = A[((i - 1) % Len(A)) + 1]
            /\ Cardinality({ i \in 1..Len(slots) : slots[i][2] }) = Len(S)
            /\ pc \notin { "loop", "done" } =>
                 /\ a = A[(j % Len(A)) + 1]
                 /\ \A i \in 1..Len(calls) : calls[i].of = strategy(a))
    /\ [][ (pc = "loop" /\ pc' # "done") =>
             IF \A t \in territories : Dict(s)[t][1] # A[(j % Len(A)) + 1]
             THEN /\ slots' = Append(slots, << A[(j % Len(A)) + 1], FALSE >>)
                  /\ S' = S
                  /\ calls' = calls
                  /\ pc' = "loop"
             ELSE /\ pc' \in { "attack", "failed" }
                  /\ pc' = "attack" => S' = S /\ slots' = slots ]_vars
    /\ [][ Len(S') # Len(S) =>
             \/ pc' = "failed"
             \/ /\ pc = "maneuver"
                /\ Len(S') = Len(S) + 1
                /\ slots' = Append(slots, << a, TRUE >>) ]_vars

\* an army defeated in the first turn is skipped in both rounds, between two
\* armies that play
C4_Witness ==
    /\ Len(slots) = 6
    /\ slots[1][2] /\ ~slots[2][2] /\ slots[3][2]
    /\ slots[4][2] /\ ~slots[5][2] /\ slots[6][2]

single_occupant(d) == Cardinality({ d[t][1] : t \in territories }) = 1

\* C5: no turn is played from a State in which a single army is left: every
\* Play of the history started from a State with several occupants, and on an
\* initial State held by one army the history stays empty and no strategy
\* function is called.
C5_NoTurnOnceOver ==
    /\ \A i \in 1..Len(S) : ~single_occupant(IF i = 1 THEN heap[1] ELSE history_dict(i - 1))
    /\ single_occupant(previous_dict) => pc \in { "loop", "done" } /\ Dict(s) = previous_dict
    /\ single_occupant(heap[1]) => S = << >> /\ calls = << >>

\* the game returns at once on a board held by one army
C5_Witness ==
    /\ pc = "done"
    /\ single_occupant(heap[1])
    /\ r_max = None

\* the game returns after the turn that conquered the last territory
C5_WitnessWon ==
    /\ pc = "done"
    /\ Len(S) >= 1
    /\ single_occupant(Dict(s))
    /\ r_max = None

plays(b) == Cardinality({ i \in 1..Len(slots) : slots[i] = << b, TRUE >> })

\* C6: with the round limit r_max = n no army plays more than n turns, the
\* history has at most n entries per army, and when the game returns before
\* it is over every army that played all its slots has played n turns.
C6_RoundLimit ==
    r_max # None =>
        /\ \A b \in armies : plays(b) <= r_max[1]
        /\ Len(S) <= r_max[1] * Len(A)
        /\ (pc = "done" /\ ~single_occupant(Dict(s))) =>
             /\ Len(slots) = r_max[1] * Len(A)
             /\ \A b \in armies :
                  (\A i \in 1..Len(slots) : slots[i][1] = b => slots[i][2]) => plays(b) = r_max[1]

\* a game of two rounds is stopped by the limit after every army played twice
C6_Witness ==
    /\ pc = "done"
    /\ r_max = << 2 >>
    /\ ~single_occupant(Dict(s))
    /\ \A b \in armies : plays(b) = 2

C9_DefenderDecides ==
    pc = "fight" => calls[Len(calls)].of = strategy(territory_occupant(Dict(s), k[2]))

\* C10: after a battle round the defending territory goes to the attacking
\* army iff the defender lost all the units of the territory; otherwise both
\* territories keep their occupant and lose their own losses of the round.
C10_ConquestIffAllLost ==
    /\ [](pc = "invade" => p[2] = Dict(s)[k[2]][2])
    /\ [][ (pc = "fight" /\ pc' # "failed") =>
             LET d == Dict(s)
                 e == heap'[s'.state]
             IN  IF p'[2] = d[k[2]][2]
                 THEN pc' = "invade" /\ e = d
                 ELSE /\ pc' = "attack"
                      /\ e = [ d EXCEPT ![k[1]] = << d[k[1]][1], d[k[1]][2] - p'[1] >>,
                                        ![k[2]] = << d[k[2]][1], d[k[2]][2] - p'[2] >> ] ]_vars
    /\ [][ (pc = "invade" /\ pc' # "failed") =>
             /\ heap'[s'.state][k[2]][1] = Dict(s)[k[1]][1]
             /\ heap'[s'.state][k[1]][1] = Dict(s)[k[1]][1] ]_vars
    /\ [][ pc' # "failed" =>
             \A t \in territories :
                heap'[s'.state][t][1] # Dict(s)[t][1] => pc = "invade" /\ t = k[2] ]_vars

\* a turn with a round that buried units on both sides and a round that
\* conquered the territory
C10_Witness ==
    /\ pc = "attack"
    /\ Len(K) = 2
    /\ K[1][5] = 1 /\ K[1][6] = 1
    /\ Len(I) = 1

\* C11: do_invade(s, t_a, t_d, n_a, p_a, n) removes exactly p_a + n units
\* from the attacking territory, which keeps its occupant, gives the defending
\* territory to the attacking army with exactly n units and leaves the other
\* territories unchanged; the two territories then hold their total before
\* the battle minus the losses, p_a and all the units of the defender.
C11_InvadeEffect ==
    (test.fn = "do_invade" /\ test.err = "") =>
        LET d == heap[1]
            e == test.result
            t_a == test.args[1]
            t_d == test.args[2]
            p_a == test.args[4]
            n == test.args[5]
        IN  /\ e[t_a] = << d[t_a][1], d[t_a][2] - (p_a + n) >>
            /\ e[t_d] = << d[t_a][1], n >>
            /\ \A t \in territories \ { t_a, t_d } : e[t] = d[t]
            /\ e[t_a][2] + e[t_d][2] = (d[t_a][2] + d[t_d][2]) - (p_a + d[t_d][2])

\* an invasion after a round in which the attacker lost a unit, with more
\* units than the survivors of the round
C11_Witness ==
    /\ test.fn = "do_invade"
    /\ test.err = ""
    /\ test.args[4] = 1
    /\ test.args[5] > test.args[3] - test.args[4]

\* C12: do_reinforce(s, R) adds exactly R[t] units to every territory t of R,
\* adds to the board the reinforcement units of the army that is reinforced,
\* changes no occupant and leaves the territories out of R unchanged.
C12_ReinforceEffect ==
    (test.fn = "do_reinforce" /\ test.err = "") =>
        LET d == heap[1]
            e == test.result
            r == test.args[1]
        IN  /\ DOMAIN e = DOMAIN d
            /\ \A t \in DOMAIN r : e[t][2] = d[t][2] + r[t]
            /\ \A t \in territories : e[t][1] = d[t][1]
            /\ \A t \in territories \ DOMAIN r : e[t] = d[t]
            /\ \A b \in armies :
                 (\E t \in DOMAIN r : d[t][1] = b) =>
                     total_units(e) = total_units(d) + reinforcement_units(d, b)

\* a reinforcement spread unevenly over two territories
C12_Witness ==
    /\ test.fn = "do_reinforce"
    /\ test.err = ""
    /\ \E t \in DOMAIN test.args[1], u \in DOMAIN test.args[1] :
         test.args[1][t] = 1 /\ test.args[1][u] = 2

\* C13: do_maneuver(s, t_0, t_1, n) keeps the total of the units and every
\* occupant: it moves exactly n units from t_0 to t_1, two adjacent
\* territories of the same army, leaves at least one unit on t_0 and leaves
\* the other territories unchanged.
C13_ManeuverEffect ==
    (test.fn = "do_maneuver" /\ test.err = "") =>
        LET d == heap[1]
            e == test.result
            t_0 == test.args[1]
            t_1 == test.args[2]
            n == test.args[3]
        IN  /\ << t_0, t_1 >> \in adjacencies
            /\ d[t_0][1] = d[t_1][1]
            /\ n >= 1
            /\ e[t_0] = << d[t_0][1], d[t_0][2] - n >>
            /\ e[t_1] = << d[t_1][1], d[t_1][2] + n >>
            /\ e[t_0][2] >= 1
            /\ \A t \in territories \ { t_0, t_1 } : e[t] = d[t]
            /\ total_units(e) = total_units(d)

\* several units are moved and several are left behind
C13_Witness ==
    /\ test.fn = "do_maneuver"
    /\ test.err = ""
    /\ test.args[3] >= 2
    /\ test.result[test.args[1]][2] >= 2

\* C14: Strategy.reinforce raises whenever the wrapped function answers an
\* allocation with a territory that the army does not occupy, with an
\* allocation that is not strictly positive, or whose sum is not
\* reinforcement_units(s, a).
C14_ReinforceRejects ==
    (test.fn = "Strategy.reinforce" /\ test.called) =>
        LET d == heap[1]
            b == test.args[1]
            r == test.answer
        IN  ( \/ \E t \in DOMAIN r : d[t][1] # b
              \/ \E t \in DOMAIN r : r[t] <= 0
              \/ SumOver(r, DOMAIN r) # reinforcement_units(d, b) ) => test.err # ""

\* C15: whenever Strategy.invade accepts the answer n for arguments that pass
\* its preconditions, at least one unit stays on the attacking territory once
\* the losses and the invading units are removed: units(s, t_a) - p_a - n >= 1.
C15_InvadeLeavesOne ==
    (test.fn = "Strategy.invade" /\ test.called /\ test.err = "") =>
        heap[1][test.args[1]][2] - test.args[4] - test.answer >= 1

\* C16: Strategy.invade raises on every answer smaller than n_a - p_a, the
\* units that survived the round: an answer that is accepted is at least
\* n_a - p_a.
C16_InvadeMinimum ==
    (test.fn = "Strategy.invade" /\ test.called) =>
        /\ test.answer < test.args[3] - test.args[4] =>
             /\ test.err = "invade: at least the remaining units must take possession of the vanquished territory"
             /\ test.result = None
        /\ test.err = "" => test.result = << test.answer >> /\ test.answer >= test.args[3] - test.args[4]

\* three units attacked, one was lost, and an invasion with one unit is refused
C16_Witness ==
    /\ test.fn = "Strategy.invade"
    /\ test.called
    /\ test.args[3] = 3
    /\ test.args[4] = 1
    /\ test.answer = 1
    /\ test.err # ""

\* C17: Strategy.defend raises before it consults the wrapped function
\* whenever the attacking dice are not in 1..3, are not fewer than the units
\* of the attacking territory, the two territories have the same occupant, or
\* they are not adjacent; and every value it returns is 1 or 2 and at most
\* the units of the defending territory.
C17_DefendContract ==
    test.fn = "Strategy.defend" =>
        LET d == heap[1]
            t_a == test.args[1]
            t_d == test.args[2]
            n == test.args[3]
        IN  /\ ( \/ n \notin 1..3
                 \/ ~(n < d[t_a][2])
                 \/ d[t_a][1] = d[t_d][1]
                 \/ << t_a, t_d >> \notin adjacencies ) => (~test.called /\ test.err # "")
            /\ test.err = "" => (test.result[1] \in { 1, 2 } /\ test.result[1] <= d[t_d][2])

\* C18: every result (t_a, t_d, n) that Strategy.attack returns has t_a
\* occupied by the army, t_d occupied by another army, n in 1..3 and n below
\* the units of t_a; any other answer than None raises; None is returned as is.
C18_AttackContract ==
    test.fn = "Strategy.attack" =>
        LET d == heap[1]
            b == test.args[1]
            r == test.answer
        IN  IF r = None THEN test.err = "" /\ test.result = None
            ELSE /\ test.err = "" <=> ( /\ d[r[1]][1] = b
                                        /\ d[r[2]][1] # b
                                        /\ r[3] \in 1..3
                                        /\ r[3] < d[r[1]][2] )
                 /\ test.err = "" => test.result = r

\* an attack with three units is returned
C18_Witness ==
    /\ test.fn = "Strategy.attack"
    /\ test.err = ""
    /\ test.result # None
    /\ test.result[3] = 3

C19_WitnessDefeated ==
    /\ test.fn = "reinforcement_units"
    /\ test.err # ""

\* C20: region_occupant(s, r) is the army a iff a occupies every territory of
\* r, and None when several armies are in r; is_occupied_region(s, r) holds
\* iff r is in regions_occupied_by_army(s, a) for some army a.
C20_RegionOccupant ==
    LET d == heap[1]
        r == test.args[1]
        present == { d[t][1] : t \in M[r] }
    IN  /\ (test.fn = "region_occupant" /\ r \in regions) =>
             /\ test.err = ""
             /\ test.result = IF Cardinality(present) = 1
                              THEN << CHOOSE b \in present : TRUE >> ELSE None
        /\ (test.fn = "is_occupied_region" /\ r \in regions) =>
             /\ test.err = ""
             /\ test.result = << \E b \in armies : r \in regions_occupied_by_army(d, b) >>

\* C21: every query over a State raises when it is given a territory, an army
\* or a region that does not belong to the World of the State, and returns no
\* value for it.
C21_UnknownEntity ==
    ( /\ test.fn \in { "territory_occupant", "territory_units", "territories_occupied_by_army",
                       "bordering_territories", "armies_in_region", "region_occupant",
                       "regions_occupied_by_army", "is_occupied_region", "army_units",
                       "is_defeated_army", "reinforcement_units" }
      /\ test.args[1] \notin territories \cup armies \cup regions )
    => (test.err # "" /\ test.result = None)

\* C22: in every World that is built the adjacency relation is symmetric and
\* irreflexive, and it is the symmetric closure of the bordering relation
\* that was supplied.
C22_AdjacencySymmetric ==
    (test.fn = "World" /\ test.err = "") =>
        LET Gm == test.args[3]
            D == test.result[1].adjacencies
            supplied == { q \in (DOMAIN Gm) \X test.result[1].territories : q[2] \in Gm[q[1]] }
        IN  /\ \A q \in D : << q[2], q[1] >> \in D
            /\ \A q \in D : q[1] # q[2]
            /\ D = supplied \cup { << q[2], q[1] >> : q \in supplied }

\* a World is built from a bordering relation that lists a border on one side
C22_Witness ==
    /\ test.fn = "World"
    /\ test.err = ""
    /\ \E t \in DOMAIN test.args[3] : \E u \in test.args[3][t] : t \notin test.args[3][u]

\* C23: World accepts a bordering relation that is not symmetric or that
\* lists a territory as its own neighbour, when the other preconditions hold:
\* the World is built, with the symmetric closure without the reflexive pairs.
C23_AnyGammaAccepted ==
    LET G == test.args[1]
        Mp == test.args[2]
        Gm == test.args[3]
        names == UNION { Mp[r] : r \in DOMAIN Mp }
        supplied == { q \in (DOMAIN Gm) \X names : q[2] \in Gm[q[1]] }
    IN  ( /\ test.fn = "World"
          /\ Len(G) >= 1
          /\ Cardinality(names) >= Len(G)
          /\ \A r \in DOMAIN Mp : Mp[r] # { }
          /\ \A r1 \in DOMAIN Mp, r2 \in DOMAIN Mp : r1 # r2 => Mp[r1] \cap Mp[r2] = { }
          /\ DOMAIN Gm = names
          /\ \A t \in names : Gm[t] # { } /\ Gm[t] \subseteq names )
        => /\ test.err = ""
           /\ test.result[1].adjacencies =
                { q \in supplied \cup { << q[2], q[1] >> : q \in supplied } : q[1] # q[2] }

\* C24: on every World of n >= 1 armies and at least n territories,
\* random_initial_state returns a State that holds every territory, with
\* exactly 2 units and an army of the World on each, in which the numbers of
\* territories of any two armies differ by at most 1.
C24_InitialState ==
    test.fn = "random_initial_state" =>
        LET w == test.args[1]
            d == test.result[1]
            owned(b) == Cardinality({ t \in w.territories : d[t][1] = b })
        IN  /\ test.err = ""
            /\ DOMAIN d = w.territories
            /\ \A t \in w.territories : d[t][2] = 2 /\ d[t][1] \in w.armies
            /\ \A b1 \in w.armies, b2 \in w.armies :
                 owned(b1) - owned(b2) <= 1 /\ owned(b2) - owned(b1) <= 1

\* three armies share five territories: two of them hold two territories
C24_Witness ==
    /\ test.fn = "random_initial_state"
    /\ test.err = ""
    /\ Cardinality(test.args[1].armies) = 3
    /\ Cardinality(test.args[1].territories) = 5
    /\ \E b \in test.args[1].armies :
         Cardinality({ t \in test.args[1].territories : test.result[1][t][1] = b }) = 1

\* the i-th largest value of the roll r
ranked(r, i) ==
    CHOOSE v \in 1..DieFaces :
        /\ Cardinality({ x \in DOMAIN r : r[x] > v }) < i
        /\ i <= Cardinality({ x \in DOMAIN r : r[x] >= v })

\* C25: for every roll of n in 1..3 attacking dice and m in 1..2 defending
\* dice, fight_random_outcome compares the two rolls in descending order,
\* position by position over min(n, m) pairs; the defender loses a unit for a
\* pair iff the attacking die is strictly higher, the attacker otherwise, and
\* the losses returned sum to min(n, m).
C25_FightOutcome ==
    (test.fn = "fight_random_outcome" /\ test.called) =>
        LET n == test.args[1]
            m == test.args[2]
            r_a == test.answer[1]
            r_d == test.answer[2]
            pairs == 1..(IF n < m THEN n ELSE m)
            won == { i \in pairs : ranked(r_a, i) > ranked(r_d, i) }
        IN  /\ test.err = ""
            /\ test.result = << Cardinality(pairs) - Cardinality(won), Cardinality(won) >>
            /\ test.result[1] + test.result[2] = Cardinality(pairs)

\* unsorted rolls of three and two dice, with a tie on the second pair
C25_Witness ==
    /\ test.fn = "fight_random_outcome"
    /\ test.args = << 3, 2 >>
    /\ test.answer = << << 2, 6, 4 >>, << 4, 5 >> >>
    /\ test.result = << 1, 1 >>

\* the odds of an entry of a table, as a dict from the losses to their weight
odds_of(fn, entry) ==
    IF fn = "BALANCED_BATTLE_OUTCOMES"
    THEN [ o \in { << entry[i][1], entry[i][2] >> : i \in DOMAIN entry } |->
             LET i == CHOOSE x \in DOMAIN entry : << entry[x][1], entry[x][2] >> = o IN entry[i][3] ]
    ELSE entry

\* C26: each table of single-round outcomes (_prob_table, _ROLL_ODDS,
\* BALANCED_BATTLE_OUTCOMES) gives for n attacking and m defending dice the
\* probabilities found by enumerating the 6^(n+m) rolls, descending sort and
\* pairwise comparison, rounded to the decimals of the entry; the weights of
\* an entry sum to 1; for (3, 1) they are 0.340 for the loss of an attacking
\* unit and 0.660 for the loss of a defending unit.
C26_OutcomeTables ==
    ( /\ test.fn \in { "_prob_table", "_ROLL_ODDS", "BALANCED_BATTLE_OUTCOMES", "all_battles" }
      /\ test.args[1] \in 1..3
      /\ test.args[2] \in 1..2 ) =>
        LET n == test.args[1]
            m == test.args[2]
            rolls == { << r_a, r_d >> : r_a \in [ 1..n -> 1..6 ], r_d \in [ 1..m -> 1..6 ] }
            pairs == 1..(IF n < m THEN n ELSE m)
            won(x) == Cardinality({ i \in pairs : ranked(x[1], i) > ranked(x[2], i) })
            count(o) == Cardinality({ x \in rolls : won(x) = o[2] })
            outcomes == { << Cardinality(pairs) - i, i >> : i \in 0..Cardinality(pairs) }
        IN  /\ test.err = ""
            /\ test.fn = "all_battles" =>
                 LET f == test.result[1]
                 IN  /\ f.n = Cardinality(rolls)
                     /\ DOMAIN f.h = outcomes
                     /\ \A o \in outcomes : f.h[o] = count(o)
            /\ test.fn # "all_battles" =>
                 LET odds == odds_of(test.fn, test.result[1])
                     unit == IF \A o \in DOMAIN odds : odds[o] % 10 = 0 THEN 10 ELSE 1
                 IN  /\ DOMAIN odds = outcomes
                     /\ \A o \in outcomes :
                          /\ odds[o] * Cardinality(rolls) - count(o) * Scale < unit * Cardinality(rolls)
                          /\ count(o) * Scale - odds[o] * Cardinality(rolls) < unit * Cardinality(rolls)
                     /\ SumOver(odds, outcomes) = Scale
                     /\ << n, m >> = << 3, 1 >> => (odds[<< 1, 0 >>] = 3400 /\ odds[<< 0, 1 >>] = 6600)

\* sum over the outcomes o of odds of odds[o] times f(a - o[1], d - o[2])
RECURSIVE expected(_, _, _)
expected(odds, outcomes, values) ==
    IF outcomes = { } THEN float_zero
    ELSE LET o == CHOOSE x \in outcomes : TRUE
         IN  float_plus(float_times(odds[o], values[o]), expected(odds, outcomes \ { o }, values))

\* C27: conquest_prob(a, 0) = 1 for every a >= 1 and conquest_prob(1, d) = 0
\* for every d >= 1; for a >= 2 and d >= 1 the value is the sum, over the
\* outcomes of a round of min(3, a - 1) dice against min(2, d), of the
\* probability of the outcome times conquest_prob after the losses; the
\* recursive and the row-by-row versions return the same value for every (a, d).
C27_ConquestRecurrence ==
    (test.fn \in { "ais.probabilistic.conquest_prob", "strategy.attacks.conquest_prob" }) =>
        LET a_ == test.args[1]
            d_ == test.args[2]
            value == test.result[1]
            odds == prob_table(IF a_ - 1 < 3 THEN a_ - 1 ELSE 3, IF d_ < 2 THEN d_ ELSE 2)
            same(a2, d2) == IF test.fn = "ais.probabilistic.conquest_prob"
                            THEN conquest_prob(a2, d2) ELSE attacks_conquest_prob(a2, d2)
        IN  /\ (a_ >= 1 /\ d_ = 0) => value = << 1 >>
            /\ (a_ = 1 /\ d_ >= 1) => value = << 0 >>
            /\ (a_ >= 2 /\ d_ >= 1) =>
                 value = expected(odds, DOMAIN odds,
                                  [ o \in DOMAIN odds |-> same(a_ - o[1], d_ - o[2]) ])
            /\ value = conquest_prob(a_, d_)
            /\ value = attacks_conquest_prob(a_, d_)

\* eleven units against nine, row by row: three outcomes, two earlier rows
C27_Witness ==
    /\ test.fn = "strategy.attacks.conquest_prob"
    /\ test.args = << 11, 9 >>
    /\ float_less(<< 0 >>, test.result[1])
    /\ float_less(test.result[1], << 1 >>)

\* the version of conquest_prob that the call of test is a call of
called_conquest_prob(a2, d2) ==
    IF test.fn = "ais.probabilistic.conquest_prob" THEN conquest_prob(a2, d2)
    ELSE attacks_conquest_prob(a2, d2)

\* C28: over 1 <= a, d <= 12, conquest_prob(a, d) is strictly increasing in a
\* for every fixed d and strictly decreasing in d for every fixed a.
C28_StrictlyMonotone ==
    ( /\ test.fn \in { "ais.probabilistic.conquest_prob", "strategy.attacks.conquest_prob" }
      /\ test.args[1] \in 1..12
      /\ test.args[2] \in 1..12 ) =>
        LET a_ == test.args[1]
            d_ == test.args[2]
            value == test.result[1]
        IN  /\ a_ < 12 => float_less(value, called_conquest_prob(a_ + 1, d_))
            /\ d_ < 12 => float_less(called_conquest_prob(a_, d_ + 1), value)

\* C28, amended: over 1 <= a, d <= 12, conquest_prob(a, d) is strictly
\* increasing in a for every fixed d, and strictly decreasing in d for every
\* fixed a >= 2; for a = 1 it is 0 for every d.
C28_MonotoneFromTwo ==
    ( /\ test.fn \in { "ais.probabilistic.conquest_prob", "strategy.attacks.conquest_prob" }
      /\ test.args[1] \in 1..12
      /\ test.args[2] \in 1..12 ) =>
        LET a_ == test.args[1]
            d_ == test.args[2]
            value == test.result[1]
        IN  /\ a_ < 12 => float_less(value, called_conquest_prob(a_ + 1, d_))
            /\ (d_ < 12 /\ a_ >= 2) => float_less(called_conquest_prob(a_, d_ + 1), value)
            /\ a_ = 1 => value = << 0 >>

\* two units against eleven: the smallest chances of the table but one
C28_Witness ==
    /\ test.fn = "ais.probabilistic.conquest_prob"
    /\ test.args = << 2, 11 >>
    /\ float_less(<< 0 >>, called_conquest_prob(2, 12))
    /\ float_less(called_conquest_prob(2, 12), test.result[1])
    /\ float_less(test.result[1], called_conquest_prob(3, 11))

\* the games of the batch whose result is in the statistics
recorded(b) ==
    IF b.runner = "tournament_parallel" THEN { b.stats.game_log[i].game : i \in DOMAIN b.stats.game_log }
    ELSE IF b.runner = "tournament" THEN 1..b.stats.games
    ELSE { }

\* C29: in a batch run a game in which an assertion of the engine fails ends
\* alone: no exception leaves the runner, the failure is logged as one and the
\* game is not counted with the completed games, and the batch that is done
\* has played every one of its games.
C29_FailureContained ==
    batch.runner # "" =>
        /\ batch.raised = ""
        /\ batch.pc # "aborted"
        /\ \A x \in DOMAIN batch.played :
             batch.played[x] = "AssertionError" => (x \in batch.errors /\ x \notin recorded(batch))
        /\ \A x \in batch.errors : batch.played[x] = "AssertionError"
        /\ batch.pc = "done" => DOMAIN batch.played = 1..batch.num_games

\* C29 for the parallel runner alone
C29_ParallelContained ==
    batch.runner = "tournament_parallel" => C29_FailureContained

C31_OriginKeepsOne ==
    (test.fn \in { "attacks", "maneuvers", "random_attack" } /\ test.err = "") =>
        LET d == Dict(s)
            listed == IF test.fn = "random_attack"
                      THEN { test.result[i] : i \in DOMAIN test.result }
                      ELSE test.result[1]
        IN  \A x \in listed :
              /\ x[3] >= 1
              /\ x[3] < d[x[1]][2]
              /\ d[x[1]][2] > 1
              /\ test.fn # "maneuvers" => x[3] <= 3

\* C31 for random_attack alone
C31_RandomAttackKeepsOne ==
    test.fn = "random_attack" => C31_OriginKeepsOne

\* C32: each reinforcement function of the repository returns, for every
\* valid State and every undefeated army, a non-empty allocation on
\* territories of the army, of strictly positive values that sum to the
\* entitlement of the army, which is what do_reinforce accepts.
C32_ReinforcementFunctions ==
    ( /\ test.fn \in { "random_reinforcement", "random_uniform_reinforcement",
                       "ais.probabilistic.reinforce_border_first",
                       "strategy.reinforcements.reinforce_border_first" }
      /\ \E t \in test.args[1].territories : test.args[2][t][1] = test.args[3] ) =>
        LET w == test.args[1]
            d == test.args[2]
            b == test.args[3]
            owned == { t \in w.territories : d[t][1] = b }
            whole == { r \in w.regions : w.region_territories[r] \subseteq owned }
            earned == (Cardinality(owned) \div 3) + SumOver(w.region_value, whole)
            entitlement == IF earned < 3 THEN 3 ELSE earned
        IN  /\ test.err = ""
            /\ test.result # None
            /\ LET r == test.result[1]
               IN  /\ DOMAIN r # { }
                   /\ DOMAIN r \subseteq owned
                   /\ \A t \in DOMAIN r : r[t] > 0
                   /\ SumOver(r, DOMAIN r) = entitlement

\* C32 for the functions other than reinforce_border_first of ais/probabilistic.py
C32_OtherReinforcementFunctions ==
    test.fn # "ais.probabilistic.reinforce_border_first" => C32_ReinforcementFunctions

\* the slots in which an army has played: turns[i] is the slot of S[i]
turns == SelectSeq(slots, LAMBDA x : x[2])

\* C33: an army bound to a neutral strategy never attacks: never_invade is
\* never invoked, the set of the territories of the army never grows, and
\* when at least two armies own a territory of the initial State the army
\* is never the winning army.
C33_NeutralNeverAttacks ==
    /\ [](\A b \in neutral_armies :
            /\ \A i \in DOMAIN calls :
                 calls[i].of = b /\ calls[i].fn = "attack" => calls[i].none
            /\ \A i \in DOMAIN calls : ~(calls[i].of = b /\ calls[i].fn = "invade")
            /\ err \notin { "never_invade: t_a in s.state", "never_invade: t_d in s.state",
                            "the armies of the two territories must be distinct",
                            "invasion requires at least one unit",
                            "A neutral army should never invade since it has never attacked" }
            /\ (a = b /\ pc \in { "attack", "defend", "fight", "invade", "maneuver" }) => K = << >> /\ I = << >>
            /\ \A i \in DOMAIN S : (turns[i][1] = b) => S[i][1][2] = << >> /\ S[i][1][3] = << >>
            /\ (Cardinality({ heap[1][t][1] : t \in territories }) >= 2) =>
                  { heap[s.state][t][1] : t \in territories } # { b })
    /\ [][pc' # "failed" =>
            \A b \in neutral_armies :
                { t \in territories : heap'[s'.state][t][1] = b }
                    \subseteq { t \in territories : heap[s.state][t][1] = b }]_vars

\* a neutral army has played a whole turn of a game in which another army
\* has conquered a territory
C33_Witness ==
    /\ pc = "loop"
    /\ \E i \in DOMAIN S : turns[i][1] \in neutral_armies
    /\ \E i \in DOMAIN S : S[i][1][3] # << >>

\* C34: a tournament credits a win only for a game whose final State has
\* exactly one undefeated army; a game stopped by the round limit with
\* several armies left credits no win.
C34_WinOnlyForConqueredWorld ==
    /\ batch.runner = "tournament_parallel" =>
        /\ \A i \in DOMAIN batch.stats.game_log :
              batch.played[batch.stats.game_log[i].game] = "won"
        /\ SumOver(batch.stats.wins, player_names) <=
              Cardinality({ x \in DOMAIN batch.played : batch.played[x] = "won" })
    /\ batch.runner = "tournament" =>
        /\ SumOver(batch.stats.wins, player_names) =
              Cardinality({ x \in DOMAIN batch.played : batch.played[x] = "won" })
        /\ batch.stats.draws =
              Cardinality({ x \in DOMAIN batch.played : batch.played[x] \in { "limit", "empty" } })

\* C34 for the sequential runner, tournament.py, alone
C34_SequentialRunner == batch.runner = "tournament" => C34_WinOnlyForConqueredWorld

\* C35: whenever game() calls strategy.invade, the attacker's loss p_a of
\* the conquering round, which it passes, is 0.
C35_InvadeWithoutLoss ==
    /\ pc = "invade" => p[1] = 0 /\ K[Len(K)][5] = 0 /\ K[Len(K)][6] = territory_units(Dict(s), k[2])
    /\ err \notin { "invade: no more than one unit could have been killed on the attacker side" }
    /\ Len(calls) > 0 /\ calls[Len(calls)].fn = "invade" => p[1] = 0

\* invade is about to be called after a round of two dice against two
C35_Witness == pc = "invade" /\ n_d = 2 /\ k[3] >= 2 /\ p = << 0, 2 >>

\* C36: in game() a battle round is never resolved between territories
\* that are not adjacent: such an attack is rejected before
\* fight_random_outcome is called and before the battle is added to the list
\* of the battles.
C36_BattlesBetweenNeighbours ==
    /\ pc = "fight" => << k[1], k[2] >> \in adjacencies
    /\ \A i \in DOMAIN K : << K[i][1], K[i][2] >> \in adjacencies
    /\ err \notin { "do_bury: attacking and defending territories must be adjacent",
                    "do_invade: attacking and defending territories must be adjacent" }

\* C36 for the battles that game() returns in its history
C36_RecordedBattlesBetweenNeighbours ==
    \A i \in DOMAIN S : \A h \in DOMAIN S[i][1][2] :
        << S[i][1][2][h][1], S[i][1][2][h][2] >> \in adjacencies

\* C37: during the turn of an army, the army never loses a territory: a
\* step of the turn keeps every territory of the acting army, and the
\* territories of its reinforcement are its own in the State that ends the
\* turn, which is how polyrisk.py tells whose turn it was.
C37_ActingArmyKeepsTerritories ==
    /\ [](\A i \in DOMAIN S : \A t \in DOMAIN S[i][1][1] : heap[S[i][2].state][t][1] = turns[i][1])
    /\ [][pc' # "failed" =>
            LET b == IF pc = "loop" THEN current_army ELSE a
            IN  { t \in territories : heap[s.state][t][1] = b }
                    \subseteq { t \in territories : heap'[s'.state][t][1] = b }]_vars

\* a turn has ended in which the army conquered a territory of another army
C37_Witness ==
    /\ pc = "loop"
    /\ Len(S) > 0
    /\ S[Len(S)][1][3] # << >>
    /\ heap[S[Len(S)][2].state][S[Len(S)][1][3][1][2]][1] = turns[Len(S)][1]

\* the State in which the i-th turn of the history began
before(i) == IF i = 1 THEN heap[1] ELSE heap[S[i - 1][2].state]

\* C38: once an army occupies no territory, it occupies none in any later
\* State and never plays again: the set of the undefeated armies never
\* grows, and every turn is that of an army that was undefeated when the
\* turn began.  A defeated army stays in the armies of the World: it keeps
\* its slot in the rotation of game().
C38_DefeatIsFinal ==
    /\ [](/\ \A i \in DOMAIN S : turns[i][1] \in undefeated_armies(before(i))
          /\ \A i \in DOMAIN S : undefeated_armies(heap[S[i][2].state]) \subseteq undefeated_armies(before(i))
          /\ \A i \in DOMAIN slots : slots[i][1] = A[((i - 1) % Len(A)) + 1]
          /\ pc \in { "attack", "defend", "fight", "invade", "maneuver" } =>
                a \in undefeated_armies(heap[s.state]))
    /\ [][pc' # "failed" =>
            undefeated_armies(heap'[s'.state]) \subseteq undefeated_armies(heap[s.state])]_vars

\* an army that held a territory of the initial State was defeated, and
\* has been skipped since while another army played
C38_Witness ==
    /\ \E i \in DOMAIN slots :
        /\ ~slots[i][2]
        /\ slots[i][1] \in undefeated_armies(heap[1])
        /\ \E h \in DOMAIN slots : h > i /\ slots[h][2]

RECURSIVE replay(_, _, _)
\* the battles of a Play, applied to the dict d as game() applies them: a
\* battle that destroys the units of t_d takes the next invasion, which has
\* to be an invasion of t_d from t_a.  The answer is << FALSE >> when the
\* invasions do not match the conquests, else << TRUE, the dict reached >>.
replay(d, battles, invasions) ==
    IF battles = << >> THEN IF invasions = << >> THEN << TRUE, d >> ELSE << FALSE >>
    ELSE LET x == Head(battles)
         IN  IF x[6] = territory_units(d, x[2])
             THEN IF invasions = << >> THEN << FALSE >>
                  ELSE IF Head(invasions)[1] # x[1] \/ Head(invasions)[2] # x[2] THEN << FALSE >>
                  ELSE replay(do_invade(d, x[1], x[2], x[3], x[5], Head(invasions)[3]),
                              Tail(battles), Tail(invasions))
             ELSE replay(do_bury(d, x[1], x[2], x[5], x[6]), Tail(battles), invasions)

\* C39: in every Play of the history, the list of the invasions holds one
\* entry per conquering battle, in the same order and with the same two
\* territories, and no territory is invaded twice in a Play; the
\* reinforcement and the maneuver of the Play are the ones applied, so that
\* the Play leads from the State before it to the State recorded with it.
C39_PlayMatchesState ==
    \A i \in DOMAIN S :
        LET play == S[i][1]
            fought == replay(do_reinforce(before(i), play[1]), play[2], play[3])
        IN  /\ fought[1]
            /\ heap[S[i][2].state] =
                  IF play[4] = None THEN fought[2]
                  ELSE do_maneuver(fought[2], play[4][1], play[4][2], play[4][3])
            /\ \A x \in DOMAIN play[3], y \in DOMAIN play[3] : play[3][x][2] = play[3][y][2] => x = y

\* a Play with a battle that did not conquer, then a conquest, then a maneuver
C39_Witness ==
    \E i \in DOMAIN S :
        /\ Len(S[i][1][2]) = 2
        /\ Len(S[i][1][3]) = 1
        /\ S[i][1][3][1][2] = S[i][1][2][2][2]
        /\ S[i][1][4] # None

\* a Play with two conquests
C39_TwoInvasions == \E i \in DOMAIN S : Len(S[i][1][3]) = 2

\* C40: territory_fronts(s) returns exactly the tuples (t1, a1, t2, a2) with
\* t1 and t2 adjacent, a1 the occupant of t1, a2 the occupant of t2 and
\* a1 # a2; it is not empty whenever two adjacent territories have
\* different occupants.
C40_TerritoryFronts ==
    test.fn = "territory_fronts" =>
        /\ test.err = ""
        /\ test.result[1] =
              { x \in territories \X armies \X territories \X armies :
                  /\ << x[1], x[3] >> \in adjacencies
                  /\ heap[s.state][x[1]][1] = x[2]
                  /\ heap[s.state][x[3]][1] = x[4]
                  /\ x[2] # x[4] }
        /\ (\E y \in adjacencies : heap[s.state][y[1]][1] # heap[s.state][y[2]][1]) =>
              test.result[1] # { }

\* what territory_fronts does return: nothing
C40_NoFrontReported == test.fn = "territory_fronts" => test.result = << { } >>

====
